---- MODULE Spec2Model ----
(***************************************************************************)
(* Email responder plugin: the IMAP poll loop (monitor.ts), the message    *)
(* filters (imap.ts), the processed-id / rate-limit store (state.ts) and   *)
(* the SMTP functions (smtp.ts).                                           *)
(*                                                                         *)
(* Strings that the code inspects character by character (addresses,      *)
(* header values, subjects, cache keys) are tuples of one-character        *)
(* strings; identifiers that are only compared for equality (message ids,  *)
(* header names, account ids) are plain strings.                           *)
(***************************************************************************)
EXTENDS Integers, Sequences, FiniteSets, TLC

\* ------------------------------------------------------------------------
\* Bounds of the model
\* ------------------------------------------------------------------------
\* maxRepliesPerSenderPerHour configured for every account of the model
Ceiling == 1
\* environment failures (network, responder, disk, process restart) per run
MaxFaults == 2
\* the same for the runs of two accounts
MaxFaultsTwo == 1
\* reply(text) calls one responder invocation makes at most
MaxReplyCalls == 2
\* clock steps per run
MaxTicks == 2
\* connect failures per run of the connection specification
MaxConnFailures == 8
\* environment failures per run of two accounts without restart
MaxFaultsIso == 1
\* environment failures per run of the fair specification
MaxFaultsLive == 1
\* transports the direct calls of smtp.ts create at most
MaxHandles == 3
\* length of the subjects given to buildReplySubject
MaxSubjectLen == 2
\* length of the prefixes given to buildReplySubject
MaxPrefixLen == 2
\* length of the reference chains given to buildThreadInfo
MaxChainLen == 2
\* failures of the file system per run of the store specifications
MaxStoreFaults == 1
\* reply timestamps of one sender the direct calls of state.ts let the
\* store hold
MaxStoreReplies == 2
\* ids the state file lacks to be full when the run starts, at most
MaxCapRoom == 2
\* ids added beyond a full store
MaxCapExtra == 2
\* largest `limit` passed to fetchUnreadEmails when it is called directly
MaxLimit == 2
\* failures of the run that polls a mailbox with unusable messages
MaxFaultsFetch == 1
\* connect, fetch, mark-seen and responder failures of the run in which
\* every pending call settles
MaxFaultsProgress == 1

\* ------------------------------------------------------------------------
\* Program constants
\* ------------------------------------------------------------------------
RATE_LIMIT_WINDOW_MS == 3600000
\* Only ids of messages of the model are ever stored in the poll-loop
\* specifications; the cap is hit in SpecCap.
MAX_PROCESSED_IDS == 10000
BaseRetryDelay == 1000
maxRetryDelay == 60000
\* the clock advances in steps of half a window
TickMs == RATE_LIMIT_WINDOW_MS \div 2

\* ------------------------------------------------------------------------
\* Strings
\* ------------------------------------------------------------------------
UpperChars == <<"A","B","C","D","E","F","G","H","I","J","K","L","M",
                "N","O","P","Q","R","S","T","U","V","W","X","Y","Z">>
LowerChars == <<"a","b","c","d","e","f","g","h","i","j","k","l","m",
                "n","o","p","q","r","s","t","u","v","w","x","y","z">>

LowerOf ==
    [c \in {UpperChars[i] : i \in 1..26} |->
        LowerChars[CHOOSE i \in 1..26 : UpperChars[i] = c]]

LowerChar(c) == IF c \in DOMAIN LowerOf THEN LowerOf[c] ELSE c

\* Code units outside ASCII that the model writes by name: GREEK CAPITAL
\* LETTER SIGMA (U+03A3), GREEK SMALL LETTER SIGMA (U+03C3) and GREEK SMALL
\* LETTER FINAL SIGMA (U+03C2).  Each stands for one code unit.
CAPITAL_SIGMA == "U+03A3"
SMALL_SIGMA == "U+03C3"
FINAL_SIGMA == "U+03C2"

\* Unicode properties Cased and Case_Ignorable on the characters of the model
Cased(c) ==
    \/ c \in DOMAIN LowerOf
    \/ c \in {LowerChars[i] : i \in 1..26}
    \/ c \in {CAPITAL_SIGMA, SMALL_SIGMA, FINAL_SIGMA}
CaseIgnorable(c) == c \in {".", ":", "'"}

\* Condition Final_Sigma of SpecialCasing.txt at position i: a cased letter
\* comes before, separated by case-ignorable characters only, and no cased
\* letter follows in the same way.
FinalSigma(s, i) ==
    /\ \E j \in 1..(i - 1) :
          Cased(s[j]) /\ \A k \in (j + 1)..(i - 1) : CaseIgnorable(s[k])
    /\ ~\E j \in (i + 1)..Len(s) :
          Cased(s[j]) /\ \A k \in (i + 1)..(j - 1) : CaseIgnorable(s[k])

\* String.prototype.toLowerCase: the locale-insensitive mappings of
\* UnicodeData.txt and SpecialCasing.txt (ECMA-262 22.1.3.28)
toLowerCase(s) ==
    [i \in 1..Len(s) |->
        IF s[i] = CAPITAL_SIGMA
        THEN (IF FinalSigma(s, i) THEN FINAL_SIGMA ELSE SMALL_SIGMA)
        ELSE LowerChar(s[i])]

\* String.prototype.startsWith
startsWith(s, p) == Len(p) <= Len(s) /\ SubSeq(s, 1, Len(p)) = p

\* String.prototype.includes
includes(s, p) ==
    \E i \in 1..(Len(s) + 1) : i + Len(p) - 1 <= Len(s) /\ SubSeq(s, i, i + Len(p) - 1) = p

\* Array.prototype.includes
arrayIncludes(arr, x) == \E i \in 1..Len(arr) : arr[i] = x

\* Array.prototype.filter with the predicate given as the set of kept values
RECURSIVE filterSeq(_, _)
filterSeq(arr, keep) ==
    IF arr = <<>> THEN <<>>
    ELSE IF Head(arr) \in keep THEN <<Head(arr)>> \o filterSeq(Tail(arr), keep)
    ELSE filterSeq(Tail(arr), keep)

\* Array.prototype.slice(-n)
sliceLast(arr, n) ==
    IF Len(arr) <= n THEN arr ELSE SubSeq(arr, Len(arr) - n + 1, Len(arr))

Min(a, b) == IF a < b THEN a ELSE b

\* ------------------------------------------------------------------------
\* imap.ts: filters
\* ------------------------------------------------------------------------
autoReplyHeaders ==
    <<"x-auto-reply", "x-autoreply", "auto-submitted", "x-autorespond", "precedence">>

\* email.headers[header]: undefined is modelled as the empty string, which
\* the code treats alike (`if (value)`).
headerValue(email, header) ==
    IF header \in DOMAIN email.headers THEN email.headers[header] ELSE <<>>

STR_no == <<"n","o">>
STR_auto == <<"a","u","t","o">>
STR_bulk == <<"b","u","l","k">>
STR_junk == <<"j","u","n","k">>
STR_list == <<"l","i","s","t">>

\* The body of the for loop of isAutoReply for one header: TRUE when the
\* loop returns true at this header, FALSE when it goes on to the next.
autoReplyAtHeader(email, header) ==
    LET value == headerValue(email, header) IN
    IF value # <<>>
    THEN IF header = "auto-submitted" /\ value # STR_no THEN TRUE
         ELSE IF header = "precedence" /\ toLowerCase(value) \in {STR_bulk, STR_junk, STR_list} THEN TRUE
         ELSE IF includes(toLowerCase(value), STR_auto) THEN TRUE
         ELSE TRUE
    ELSE FALSE

isAutoReply(email) ==
    \E i \in 1..Len(autoReplyHeaders) : autoReplyAtHeader(email, autoReplyHeaders[i])

\* The literal prefixes the patterns of isIgnoredSender accept (all patterns
\* are anchored at the start and case-insensitive; notifications?@ is two
\* prefixes).
ignoredPrefixes ==
    { <<"n","o","r","e","p","l","y","@">>,
      <<"n","o","-","r","e","p","l","y","@">>,
      <<"m","a","i","l","e","r","-","d","a","e","m","o","n","@">>,
      <<"p","o","s","t","m","a","s","t","e","r","@">>,
      <<"b","o","u","n","c","e">>,
      <<"n","o","t","i","f","i","c","a","t","i","o","n","@">>,
      <<"n","o","t","i","f","i","c","a","t","i","o","n","s","@">>,
      <<"d","o","n","o","t","r","e","p","l","y","@">>,
      <<"d","o","-","n","o","t","-","r","e","p","l","y","@">> }

isIgnoredSender(addr) ==
    \E p \in ignoredPrefixes : startsWith(toLowerCase(addr), p)

\* ------------------------------------------------------------------------
\* state.ts: the store
\* ------------------------------------------------------------------------
\* An optional value is a sequence of length 0 (null / no file) or 1.
NULL == <<>>
Some(x) == <<x>>

emptyRateLimits == [s \in {} |-> <<>>]
EmptyStore == [processedIds |-> <<>>, rateLimits |-> emptyRateLimits]

\* Content of a state file that JSON.parse rejects
Garbage == [unparsable |-> TRUE]

\* JSON.parse(data) returns (the files of the model hold a stringified
\* store or text that is no JSON)
parses(data) == "processedIds" \in DOMAIN data

\* loadState (lines 23-43) in an environment where ensureStateDir succeeds
\* or throws (dirOk) and readFileSync succeeds or throws (readOk): whether
\* the call threw, and otherwise the store returned, which is also what
\* stateCache holds afterwards.
loadStateIn(cache, file, dirOk, readOk) ==
    IF cache # NULL THEN [threw |-> FALSE, state |-> cache[1]]
    ELSE IF ~dirOk THEN [threw |-> TRUE, state |-> EmptyStore]
    ELSE IF file # NULL /\ readOk /\ parses(file[1])
    THEN [threw |-> FALSE, state |-> file[1]]
    ELSE [threw |-> FALSE, state |-> EmptyStore]

\* loadState where the directory and the file can be accessed: the cache
\* when set, else the file when it exists and parses, else the empty store.
loadState(cache, file) == loadStateIn(cache, file, TRUE, TRUE).state

recentTimestamps(timestamps, now) ==
    filterSeq(timestamps, {ts \in {timestamps[i] : i \in 1..Len(timestamps)} :
                               now - ts < RATE_LIMIT_WINDOW_MS})

\* Variant: the processed ids are never trimmed.
trimAndPurge_noTrim(state, now) ==
    LET purged == [s \in DOMAIN state.rateLimits |->
                      recentTimestamps(state.rateLimits[s], now)]
        kept == {s \in DOMAIN purged : purged[s] # <<>>}
    IN [processedIds |-> state.processedIds,
        rateLimits |-> [s \in kept |-> purged[s]]]

\* saveState lines 48-62: trim the ids, purge the rate limits
trimAndPurge(state, now) ==
    LET purged == [s \in DOMAIN state.rateLimits |->
                      recentTimestamps(state.rateLimits[s], now)]
        kept == {s \in DOMAIN purged : purged[s] # <<>>}
    IN [processedIds |-> sliceLast(state.processedIds, MAX_PROCESSED_IDS),
        rateLimits |-> [s \in kept |-> purged[s]]]

\* saveState: the new cache and file, and whether writeFileSync threw.
saveState(state, file, now, writeOk) ==
    LET t == trimAndPurge(state, now) IN
    [cache |-> Some(t),
     file |-> IF writeOk THEN Some(t) ELSE file,
     threw |-> ~writeOk]

\* Variant: the processed-id lookup always answers "not processed".
isMessageProcessed_never(cache, file, messageId) ==
    arrayIncludes(<<>>, messageId)

isMessageProcessed(cache, file, messageId) ==
    arrayIncludes(loadState(cache, file).processedIds, messageId)

\* Variant: the store saved is built from an empty snapshot, not from the
\* store loaded.
markMessageProcessed_emptySnapshot(cache, file, messageId, now, writeOk) ==
    LET state == loadState(cache, file) IN
    IF ~arrayIncludes(state.processedIds, messageId)
    THEN saveState([EmptyStore EXCEPT !.processedIds = <<messageId>>], file, now, writeOk)
    ELSE [cache |-> Some(state), file |-> file, threw |-> FALSE]

markMessageProcessed(cache, file, messageId, now, writeOk) ==
    LET state == loadState(cache, file) IN
    IF ~arrayIncludes(state.processedIds, messageId)
    THEN saveState([state EXCEPT !.processedIds = Append(@, messageId)], file, now, writeOk)
    ELSE [cache |-> Some(state), file |-> file, threw |-> FALSE]

\* Variant: clearState forgets the cache and keeps the file.
clearState_cacheOnly(cache, file, unlinkOk) ==
    [cache |-> NULL, file |-> file, threw |-> FALSE]

\* clearState (lines 126-131): the new cache and file, and whether
\* unlinkSync threw.
clearState(cache, file, unlinkOk) ==
    [cache |-> NULL,
     file |-> IF file # NULL /\ unlinkOk THEN NULL ELSE file,
     threw |-> file # NULL /\ ~unlinkOk]

timestampsOf(state, sender) ==
    IF sender \in DOMAIN state.rateLimits THEN state.rateLimits[sender] ELSE <<>>

\* Variant: every stored timestamp counts, whatever its age.
checkRateLimit_noWindow(cache, file, sender, maxPerHour, now) ==
    Len(timestampsOf(loadState(cache, file), sender)) < maxPerHour

\* Variant: the ceiling itself is still allowed (<= for <).
checkRateLimit_inclusive(cache, file, sender, maxPerHour, now) ==
    Len(recentTimestamps(timestampsOf(loadState(cache, file), sender), now)) <= maxPerHour

checkRateLimit(cache, file, sender, maxPerHour, now) ==
    Len(recentTimestamps(timestampsOf(loadState(cache, file), sender), now)) < maxPerHour

recordReply(cache, file, sender, now, writeOk) ==
    LET state == loadState(cache, file)
        pushed == Append(timestampsOf(state, sender), now)
        rl == [s \in DOMAIN state.rateLimits \cup {sender} |->
                  IF s = sender THEN pushed ELSE state.rateLimits[s]]
    IN saveState([state EXCEPT !.rateLimits = rl], file, now, writeOk)


\* ------------------------------------------------------------------------
\* imap.ts: normalizer and fetch
\* ------------------------------------------------------------------------
\* input.match(/<([^>]+)>/): the text between the first "<" that is followed
\* by at least one non-">" character and the next ">".
bracketed(input) ==
    LET starts == {i \in 1..Len(input) :
                      /\ input[i] = "<"
                      /\ i + 1 <= Len(input) /\ input[i + 1] # ">"
                      /\ \E j \in (i + 2)..Len(input) : input[j] = ">"}
    IN IF starts = {} THEN NULL
       ELSE LET i == CHOOSE k \in starts : \A l \in starts : k <= l
                j == CHOOSE k \in (i + 2)..Len(input) :
                        input[k] = ">" /\ \A l \in (i + 2)..(k - 1) : input[l] # ">"
            IN Some(SubSeq(input, i + 1, j - 1))

RECURSIVE trimLeft(_)
trimLeft(s) == IF s # <<>> /\ Head(s) = " " THEN trimLeft(Tail(s)) ELSE s

RECURSIVE trimRight(_)
trimRight(s) ==
    IF s # <<>> /\ s[Len(s)] = " " THEN trimRight(SubSeq(s, 1, Len(s) - 1)) ELSE s

\* String.prototype.trim (spaces)
trim(s) == trimRight(trimLeft(s))

extractEmailAddress(input) ==
    LET m == bracketed(input) IN
    trim(toLowerCase(IF m # NULL THEN m[1] ELSE input))

\* parseMailToEmail: NULL when no sender address can be extracted.  A raw
\* message without Message-ID (messageId = <<>>) gets a generated id.
parseMailToEmail(raw, now) ==
    LET from == extractEmailAddress(raw.from) IN
    IF from = <<>> THEN NULL
    ELSE Some([messageId |-> IF raw.messageId # <<>> THEN raw.messageId
                             ELSE <<"generated", raw.uid, now>>,
               from |-> from,
               headers |-> raw.headers,
               uid |-> raw.uid])

FetchLimit == 20

\* A fetched message whose source simpleParser rejects
Unparsable(uid) == [uid |-> uid, unparsable |-> TRUE]

\* `await simpleParser(message.source)` throws (line 62)
simpleParserThrows(raw) == "unparsable" \in DOMAIN raw

\* Variant: the first message that cannot be parsed or has no sender ends
\* the fetch loop.
RECURSIVE parseAll_failureEnds(_, _)
parseAll_failureEnds(raws, now) ==
    IF raws = <<>> THEN <<>>
    ELSE IF simpleParserThrows(Head(raws)) THEN <<>>
    ELSE IF parseMailToEmail(Head(raws), now) = NULL THEN <<>>
    ELSE parseMailToEmail(Head(raws), now) \o parseAll_failureEnds(Tail(raws), now)

\* The fetch loop (lines 56-71): each message is parsed inside its own
\* try/catch and pushed when parseMailToEmail returned an email.
RECURSIVE parseAll(_, _)
parseAll(raws, now) ==
    IF raws = <<>> THEN <<>>
    ELSE (IF simpleParserThrows(Head(raws)) THEN <<>>
          ELSE parseMailToEmail(Head(raws), now))
         \o parseAll(Tail(raws), now)

\* client.search({ seen: false }, { uid: true }) (line 49): the unseen
\* messages in ascending uid order, which is the order of the mailbox.
searchUnseen(box, seenUids) ==
    filterSeq(box, {m \in {box[i] : i \in 1..Len(box)} : m.uid \notin seenUids})

\* fetchUnreadEmails when every IMAP command succeeds: the last `limit`
\* unseen messages in the order of the fetch response, each parsed.
fetchUnreadEmails(box, seenUids, limit, now) ==
    parseAll(sliceLast(searchUnseen(box, seenUids), limit), now)

\* The IMAP commands of fetchUnreadEmails that can reject
FetchFailures == {"getMailboxLock", "search", "fetch"}

\* The try block of fetchUnreadEmails (lines 48-71) where the command named
\* by `failure` rejects ("none": no command does): whether it threw, and
\* the emails collected otherwise.  An empty search result returns at once
\* (line 50), before fetch is called.
fetchTryBlock(box, seenUids, limit, now, failure) ==
    IF failure = "search" THEN [threw |-> TRUE, emails |-> <<>>]
    ELSE IF searchUnseen(box, seenUids) = <<>> THEN [threw |-> FALSE, emails |-> <<>>]
    ELSE IF failure = "fetch" THEN [threw |-> TRUE, emails |-> <<>>]
    ELSE [threw |-> FALSE, emails |-> fetchUnreadEmails(box, seenUids, limit, now)]

\* fetchUnreadEmails (lines 40-77): whether the promise is rejected, the
\* emails it is fulfilled with, and the folder locks taken and not released
\* when it settles.  getMailboxLock is awaited before the try (line 47):
\* when it rejects no lock was taken.  Otherwise one lock is taken and the
\* finally (lines 72-74) releases it, however the try block ended.
fetchUnreadEmailsIn(box, seenUids, limit, now, failure) ==
    LET body == fetchTryBlock(box, seenUids, limit, now, failure)
        taken == 1
        released == 1
    IN
    IF failure = "getMailboxLock"
    THEN [threw |-> TRUE, emails |-> <<>>, locksHeld |-> 0]
    ELSE [threw |-> body.threw, emails |-> body.emails,
          locksHeld |-> taken - released]

\* ------------------------------------------------------------------------
\* Accounts and the mailboxes of the model
\* ------------------------------------------------------------------------
Accounts == {"a1", "a2"}

ADDR_Bot == <<"B","o","t","@","x">>
ADDR_me == <<"m","e","@","y">>
ADDR_alice == <<"a","l","@","x">>
ADDR_bot == <<"b","o","t","@","x">>
ADDR_noreply == <<"n","o","r","e","p","l","y","@","v">>
STR_autoreplied == <<"a","u","t","o","-","r","e","p","l","i","e","d">>

\* account.email / account.config.maxRepliesPerSenderPerHour
accountEmail(a) == IF a = "a1" THEN ADDR_Bot ELSE ADDR_me
maxReplies(a) == Ceiling

noHeaders == [h \in {} |-> <<>>]
Raw(uid, id, from, headers) ==
    [uid |-> uid, messageId |-> <<id>>, from |-> from, headers |-> headers]

\* First messages of the first account's mailbox, one per filter case
FirstMessages ==
    { Raw(1, "m1", ADDR_alice, noHeaders),
      Raw(1, "m3", ADDR_bot, noHeaders),
      Raw(1, "m4", ADDR_alice, [h \in {"auto-submitted"} |-> STR_autoreplied]),
      Raw(1, "m5", ADDR_alice, [h \in {"auto-submitted"} |-> STR_no]),
      Raw(1, "m6", ADDR_noreply, noHeaders) }

SecondMessage == Raw(2, "m2", ADDR_alice, noHeaders)
OtherMessage == Raw(1, "m7", ADDR_alice, noHeaders)

Uids == {1, 2}

\* ------------------------------------------------------------------------
\* smtp.ts
\* ------------------------------------------------------------------------
Digits == <<"0","1","2","3","4","5","6","7","8","9">>

\* Number-to-string conversion of a template literal
RECURSIVE decimal(_)
decimal(n) ==
    IF n < 10 THEN <<Digits[n + 1]>>
    ELSE decimal(n \div 10) \o <<Digits[(n % 10) + 1]>>

\* Truthiness of an optional string: NULL is undefined
Truthy(x) == x # NULL /\ x[1] # <<>>

\* getSmtpTransporter, line 20: `${opts.host}:${opts.port}:${opts.user}`
smtpKey(opts) == opts.host \o <<":">> \o decimal(opts.port) \o <<":">> \o opts.user

\* nodemailer.createTransport (lines 24-33): a new object, told apart from
\* every other by its number
createTransport(n, opts) ==
    [id |-> n, host |-> opts.host, port |-> opts.port, secure |-> opts.tls,
     requireTLS |-> opts.startTls, user |-> opts.user, pass |-> opts.password]

\* Variant: a transport is created on every call.
getSmtpTransporter_uncached(cache, handles, opts) ==
    LET key == smtpKey(opts)
        fresh == createTransport(handles + 1, opts)
    IN [cache |-> [k \in DOMAIN cache \cup {key} |->
                      IF k = key THEN fresh ELSE cache[k]],
        handles |-> handles + 1,
        transporter |-> fresh]

\* getSmtpTransporter (lines 19-38) on the cache and the number of
\* transports created so far
getSmtpTransporter(cache, handles, opts) ==
    LET key == smtpKey(opts) IN
    IF key \in DOMAIN cache
    THEN [cache |-> cache, handles |-> handles, transporter |-> cache[key]]
    ELSE LET fresh == createTransport(handles + 1, opts)
         IN [cache |-> [k \in DOMAIN cache \cup {key} |->
                           IF k = key THEN fresh ELSE cache[k]],
             handles |-> handles + 1,
             transporter |-> fresh]

emptyTransporterCache == [k \in {} |-> NULL]

\* clearTransporterCache (lines 120-122)
clearTransporterCache(cache) == emptyTransporterCache

\* Array.prototype.join
RECURSIVE join(_, _)
join(arr, sep) ==
    IF arr = <<>> THEN <<>>
    ELSE IF Len(arr) = 1 THEN arr[1]
    ELSE arr[1] \o sep \o join(Tail(arr), sep)

\* sendEmail, lines 55-81: the message handed to transporter.sendMail
messageOptions(opts) ==
    [from |-> IF Truthy(opts.fromName)
              THEN <<"\"">> \o opts.fromName[1] \o <<"\"", " ", "<">> \o opts.from \o <<">">>
              ELSE opts.from,
     to |-> opts.to,
     subject |-> opts.subject,
     text |-> IF Truthy(opts.signature)
              THEN opts.text \o <<"\n", "\n">> \o opts.signature[1]
              ELSE opts.text,
     html |-> IF Truthy(opts.html)
              THEN Some(IF Truthy(opts.signature)
                        THEN opts.html[1] \o <<"<br><br><pre>">> \o opts.signature[1]
                                \o <<"</pre>">>
                        ELSE opts.html[1])
              ELSE NULL,
     headers |-> IF opts.threadInfo # NULL
                 THEN Some([inReplyTo |-> IF opts.threadInfo[1].inReplyTo # <<>>
                                          THEN Some(opts.threadInfo[1].inReplyTo)
                                          ELSE NULL,
                            references |-> IF opts.threadInfo[1].references # <<>>
                                           THEN Some(join(opts.threadInfo[1].references,
                                                          <<" ">>))
                                           ELSE NULL])
                 ELSE NULL]

\* The catch block of sendEmail (lines 89-92): the text it reports
\* (err.message of an Error, String(err) of anything else)
errorText(outcome) ==
    IF outcome.kind \in {"rejectedError", "threwError"} THEN outcome.value
    ELSE IF outcome.kind = "rejectedNumber" THEN decimal(outcome.value)
    ELSE outcome.value

\* Variant: only the building of the message is inside the try block.
sendEmail_sendOutsideTry(opts, outcome) ==
    IF outcome.kind = "resolved"
    THEN [threw |-> FALSE, ok |-> TRUE, messageId |-> Some(outcome.value),
          error |-> NULL, sent |-> Some(messageOptions(opts))]
    ELSE [threw |-> TRUE, ok |-> FALSE, messageId |-> NULL,
          error |-> NULL, sent |-> Some(messageOptions(opts))]

\* sendEmail (lines 52-93).  outcome is what opts.transporter.sendMail does
\* with the message: it resolves with a message id ("resolved"), rejects
\* with an Error ("rejectedError"), rejects with a string or a number that
\* is not an Error ("rejectedString", "rejectedNumber"), or throws an Error
\* before it returns a promise ("threwError").  threw: the promise of
\* sendEmail rejected.
sendEmail(opts, outcome) ==
    IF outcome.kind = "resolved"
    THEN [threw |-> FALSE, ok |-> TRUE, messageId |-> Some(outcome.value),
          error |-> NULL, sent |-> Some(messageOptions(opts))]
    ELSE [threw |-> FALSE, ok |-> FALSE, messageId |-> NULL,
          error |-> Some(errorText(outcome)), sent |-> Some(messageOptions(opts))]

DefaultPrefix == <<"R", "e", ":", " ">>

\* buildReplySubject (lines 95-101); prefix is NULL when the argument is
\* left out or undefined
buildReplySubject(originalSubject, prefix) ==
    LET p == IF prefix = NULL THEN DefaultPrefix ELSE prefix[1] IN
    IF startsWith(toLowerCase(originalSubject), toLowerCase(p))
    THEN originalSubject
    ELSE p \o originalSubject

\* buildThreadInfo (lines 103-118).  originalReferences is NULL when the
\* argument is undefined; an empty originalMessageId is falsy.  t and r are
\* what Date.now() and Math.random().toString(36).slice(2) return.
buildThreadInfo(originalMessageId, originalReferences, t, r) ==
    LET copied == IF originalReferences = NULL THEN <<>> ELSE originalReferences[1]
        references == IF originalMessageId # "" /\ ~arrayIncludes(copied, originalMessageId)
                      THEN Append(copied, originalMessageId)
                      ELSE copied
    IN [messageId |-> <<"<", t, "-", r, "@clawdbot>">>,
        inReplyTo |-> originalMessageId,
        references |-> references]

\* monitor.ts lines 238-245: the options the reply closure builds
smtpOptions(a) ==
    [host |-> <<"h">>, port |-> 587, user |-> accountEmail(a),
     password |-> "secret", tls |-> FALSE, startTls |-> TRUE]

\* ------------------------------------------------------------------------
\* State
\* ------------------------------------------------------------------------
VARIABLES
    pc,           \* where each account's monitorEmailProvider is suspended
    client,       \* monitorEmailProvider: client is non-null
    retryDelay,   \* monitorEmailProvider: retryDelay
    aborted,      \* abortSignal.aborted of each account
    emails,       \* the part of the fetched batch not yet processed
    replyCalls,   \* reply(text) calls of the responder invocation in progress
    mailbox,      \* remote mailbox of each account: raw messages in uid order
    seen,         \* uids flagged \Seen in each mailbox
    stateCache,   \* state.ts: stateCache
    stateFile,    \* state.json
    now,          \* Date.now()
    budget,       \* environment failures still allowed
    statusConnected, \* last `connected` value given to statusSink
    invoked,      \* history: responder invocations per account and uid
    replied,      \* history: successful replies per account and uid
    lastRule,     \* history: filter rule that ended the latest pass of the
                  \* batch in progress (0: none matched, -1: no pass yet)
    passErrors,   \* history: passes that raised between responder call and marking
    waits,        \* history: backoff waits of the connectWithRetry call in
                  \* progress or just returned (emptied when the fetch settles)
    transporterCache, \* smtp.ts: transporterCache
    handles,      \* transports created by this process so far
    created,      \* history: transports created per cache key since the
                  \* cache was last cleared
    probe         \* a direct call of an smtp.ts function: its name, its
                  \* arguments and what it returned

monitorVars == <<pc, client, retryDelay, aborted, emails, replyCalls, mailbox, seen,
                 stateCache, stateFile, now, budget, statusConnected,
                 invoked, replied, lastRule, passErrors, waits>>

smtpVars == <<transporterCache, handles, created, probe>>

vars == <<monitorVars, smtpVars>>

Started(a) == pc[a] # "idle"

InitCommon ==
    /\ client = [a \in Accounts |-> FALSE]
    /\ retryDelay = [a \in Accounts |-> BaseRetryDelay]
    /\ aborted = [a \in Accounts |-> FALSE]
    /\ emails = [a \in Accounts |-> <<>>]
    /\ replyCalls = [a \in Accounts |-> 0]
    /\ seen = [a \in Accounts |-> {}]
    /\ stateCache = NULL
    /\ now = 0
    /\ statusConnected = [a \in Accounts |-> "unset"]
    /\ invoked = [a \in Accounts |-> [u \in Uids |-> 0]]
    /\ replied = [a \in Accounts |-> [u \in Uids |-> 0]]
    /\ lastRule = [a \in Accounts |-> -1]
    /\ passErrors = [a \in Accounts |-> [u \in Uids |-> 0]]
    /\ waits = [a \in Accounts |-> <<>>]
    /\ transporterCache = emptyTransporterCache
    /\ handles = 0
    /\ created = [k \in {} |-> 0]

NoCall == [op |-> "none", args |-> <<>>, out |-> <<>>]

\* One account polling; its mailbox holds one message of any filter case
\* followed by a plain message of alice.
Init ==
    /\ InitCommon
    /\ stateFile = NULL
    /\ probe = NoCall
    /\ pc = [a \in Accounts |-> IF a = "a1" THEN "top" ELSE "idle"]
    /\ \E first \in FirstMessages :
          mailbox = [a \in Accounts |-> IF a = "a1" THEN <<first, SecondMessage>>
                                        ELSE <<OtherMessage>>]
    /\ budget = MaxFaults

\* Two accounts polling, each with one plain message of alice.
InitTwo ==
    /\ InitCommon
    /\ stateFile = NULL
    /\ probe = NoCall
    /\ pc = [a \in Accounts |-> "top"]
    /\ mailbox = [a \in Accounts |-> IF a = "a1" THEN <<SecondMessage>>
                                        ELSE <<OtherMessage>>]
    /\ budget = MaxFaultsTwo

\* Two accounts polling as in InitTwo, with their own number of failures.
InitIso ==
    /\ InitCommon
    /\ stateFile = NULL
    /\ probe = NoCall
    /\ pc = [a \in Accounts |-> "top"]
    /\ mailbox = [a \in Accounts |-> IF a = "a1" THEN <<SecondMessage>>
                                        ELSE <<OtherMessage>>]
    /\ budget = MaxFaultsIso

\* One account polling the mailbox of Init, with fewer failures to come.
InitLive ==
    /\ InitCommon
    /\ stateFile = NULL
    /\ probe = NoCall
    /\ pc = [a \in Accounts |-> IF a = "a1" THEN "top" ELSE "idle"]
    /\ \E first \in FirstMessages :
          mailbox = [a \in Accounts |-> IF a = "a1" THEN <<first, SecondMessage>>
                                        ELSE <<OtherMessage>>]
    /\ budget = MaxFaultsLive

\* One account polling an empty mailbox behind an unreliable connection.
InitConn ==
    /\ InitCommon
    /\ stateFile = NULL
    /\ probe = NoCall
    /\ pc = [a \in Accounts |-> IF a = "a1" THEN "top" ELSE "idle"]
    /\ mailbox = [a \in Accounts |-> <<>>]
    /\ budget = MaxConnFailures

\* ------------------------------------------------------------------------
\* monitor.ts: processEmail
\* ------------------------------------------------------------------------
\* Variant: the account address is compared as configured, case kept.
isOwnEmail_caseSensitive(email, a) == toLowerCase(email.from) = accountEmail(a)

\* `email.from.toLowerCase() === account.email.toLowerCase()`
isOwnEmail(email, a) == toLowerCase(email.from) = toLowerCase(accountEmail(a))

\* Variant: the ignored-sender rule is missing.
processEmailRule_noIgnoredRule(email, a, cache, file, t) ==
    IF isMessageProcessed(cache, file, email.messageId) THEN 1
    ELSE IF isOwnEmail(email, a) THEN 2
    ELSE IF isAutoReply(email) THEN 3
    ELSE IF ~checkRateLimit(cache, file, email.from, maxReplies(a), t) THEN 5
    ELSE 0

\* The filter rule at which processEmail returns early (lines 196-232), in
\* the order of the code; 0 when the message goes on to the responder.
processEmailRule(email, a, cache, file, t) ==
    IF isMessageProcessed(cache, file, email.messageId) THEN 1
    ELSE IF isOwnEmail(email, a) THEN 2
    ELSE IF isAutoReply(email) THEN 3
    ELSE IF isIgnoredSender(email.from) THEN 4
    ELSE IF ~checkRateLimit(cache, file, email.from, maxReplies(a), t) THEN 5
    ELSE 0

\* Variant: a skipped message is also counted as a reply to its sender.
skipStoreEffect_recordsReply(cache, file, email, t, writeOk) ==
    LET r == recordReply(cache, file, email.from, t, writeOk) IN
    markMessageProcessed(r.cache, r.file, email.messageId, t, writeOk)

\* What the store calls of a pass that a rule 2-5 ends do to the store
\* (lines 205, 213, 221, 229).
skipStoreEffect(cache, file, email, t, writeOk) ==
    markMessageProcessed(cache, file, email.messageId, t, writeOk)

\* The catch block of the main loop (lines 152-166) up to its first await:
\* logout when a client is held, else straight to the poll sleep.
catchPc(a) == IF client[a] THEN "logout" ELSE "sleeping"

\* Variant: a successful connect leaves the delay as it is.
retryDelayOnSuccess_kept(d) == d

\* `retryDelay = 1000; // Reset on success` (line 104)
retryDelayOnSuccess(d) == BaseRetryDelay

\* Variant: the catch block keeps the connection it has logged out of.
clientDropped_kept(cl, a) == cl

\* Variant: the connection is one variable shared by all monitors.
clientDropped_shared(cl, a) == [b \in Accounts |-> FALSE]

\* `client = null` of the catch block (line 164); client is a local of each
\* monitorEmailProvider call (line 83).
clientDropped(cl, a) == [cl EXCEPT ![a] = FALSE]

\* Variant: the for loop does not look at the signal.
batchBreak_never(a) == FALSE

\* `if (abortSignal.aborted) break;` of the for loop (line 131)
batchBreak(a) == aborted[a]

\* Variant: the main loop does not look at the signal.
loopCondition_always(a) == TRUE

\* `while (!abortSignal.aborted)` of the main loop (line 119)
loopCondition(a) == ~aborted[a]

\* Variant: the delay doubles without the cap.
nextRetryDelay_uncapped(d) == d * 2

nextRetryDelay(d) == Min(d * 2, maxRetryDelay)

\* ------------------------------------------------------------------------
\* monitor.ts: monitorEmailProvider, one action per stretch between awaits
\* ------------------------------------------------------------------------
\* Top of the main loop (line 119) and what follows without suspension.
LoopTop(a) ==
    /\ pc[a] = "top"
    /\ IF ~loopCondition(a)
       THEN /\ pc' = [pc EXCEPT ![a] = IF client[a] THEN "closing" ELSE "stopped"]
            /\ UNCHANGED waits
       ELSE IF ~client[a]
       THEN /\ pc' = [pc EXCEPT ![a] = "connecting"]
            /\ waits' = [waits EXCEPT ![a] = <<>>]
       ELSE /\ pc' = [pc EXCEPT ![a] = "fetching"]
            /\ UNCHANGED waits
    /\ UNCHANGED <<client, retryDelay, aborted, emails, replyCalls, mailbox, seen,
                   stateCache, stateFile, now, budget, statusConnected,
                   invoked, replied, lastRule, passErrors>>
    /\ UNCHANGED smtpVars

\* connectImap resolved (lines 102-105), then fetchUnreadEmails is called.
ConnectOk(a) ==
    /\ pc[a] = "connecting"
    /\ client' = [client EXCEPT ![a] = TRUE]
    /\ statusConnected' = [statusConnected EXCEPT ![a] = "yes"]
    /\ retryDelay' = [retryDelay EXCEPT ![a] = retryDelayOnSuccess(@)]
    /\ pc' = [pc EXCEPT ![a] = "fetching"]
    /\ UNCHANGED <<aborted, emails, replyCalls, mailbox, seen, stateCache, stateFile,
                   now, budget, invoked, replied, lastRule, passErrors, waits>>
    /\ UNCHANGED smtpVars

\* connectImap rejected (lines 106-111): sleep(retryDelay) is started.
ConnectFail(a) ==
    /\ pc[a] = "connecting"
    /\ budget > 0
    /\ budget' = budget - 1
    /\ statusConnected' = [statusConnected EXCEPT ![a] = "no"]
    /\ waits' = [waits EXCEPT ![a] = Append(@, retryDelay[a])]
    /\ pc' = [pc EXCEPT ![a] = "backoff"]
    /\ UNCHANGED <<client, retryDelay, aborted, emails, replyCalls, mailbox, seen,
                   stateCache, stateFile, now, invoked, replied, lastRule, passErrors>>
    /\ UNCHANGED smtpVars

\* The backoff sleep ended (line 112), the while of connectWithRetry is
\* re-tested: another attempt, or `throw new Error("Aborted")`, which the
\* catch of the main loop takes.
BackoffDone(a) ==
    /\ pc[a] = "backoff"
    /\ retryDelay' = [retryDelay EXCEPT ![a] = nextRetryDelay(@)]
    /\ pc' = [pc EXCEPT ![a] = IF aborted[a] THEN catchPc(a) ELSE "connecting"]
    /\ UNCHANGED <<client, aborted, emails, replyCalls, mailbox, seen, stateCache,
                   stateFile, now, budget, statusConnected, invoked, replied,
                   lastRule, passErrors, waits>>
    /\ UNCHANGED smtpVars

\* fetchUnreadEmails resolved (line 127).
FetchOk(a) ==
    /\ pc[a] = "fetching"
    /\ emails' = [emails EXCEPT ![a] = fetchUnreadEmails(mailbox[a], seen[a], FetchLimit, now)]
    /\ pc' = [pc EXCEPT ![a] = "batch"]
    /\ waits' = [waits EXCEPT ![a] = <<>>]
    /\ UNCHANGED <<client, retryDelay, aborted, replyCalls, mailbox, seen, stateCache,
                   stateFile, now, budget, statusConnected, invoked, replied,
                   lastRule, passErrors>>
    /\ UNCHANGED smtpVars

\* fetchUnreadEmails rejected.
FetchFail(a) ==
    /\ pc[a] = "fetching"
    /\ budget > 0
    /\ budget' = budget - 1
    /\ pc' = [pc EXCEPT ![a] = catchPc(a)]
    /\ waits' = [waits EXCEPT ![a] = <<>>]
    /\ UNCHANGED <<client, retryDelay, aborted, emails, replyCalls, mailbox, seen,
                   stateCache, stateFile, now, statusConnected, invoked, replied,
                   lastRule, passErrors>>
    /\ UNCHANGED smtpVars

\* The for loop is over or left by break (lines 130-131, 151): the poll
\* sleep (line 169) is started.
BatchEnd(a) ==
    /\ pc[a] = "batch"
    /\ emails[a] = <<>> \/ batchBreak(a)
    /\ emails' = [emails EXCEPT ![a] = <<>>]
    /\ pc' = [pc EXCEPT ![a] = "sleeping"]
    /\ lastRule' = [lastRule EXCEPT ![a] = -1]
    /\ UNCHANGED <<client, retryDelay, aborted, replyCalls, mailbox, seen, stateCache,
                   stateFile, now, budget, statusConnected, invoked, replied,
                   passErrors, waits>>
    /\ UNCHANGED smtpVars

\* processEmail from its start to its first await (lines 192-285), for the
\* next message of the batch.  writeOk: whether writeFileSync succeeds.
processEmailStart(a, writeOk) ==
    LET email == Head(emails[a])
        rule == processEmailRule(email, a, stateCache, stateFile, now)
        st == skipStoreEffect(stateCache, stateFile, email, now, writeOk)
    IN
    /\ pc[a] = "batch"
    /\ emails[a] # <<>>
    /\ ~batchBreak(a)
    /\ lastRule' = [lastRule EXCEPT ![a] = rule]
    /\ IF rule = 1
       THEN \* return; the await of line 140 resumes the for loop
            /\ stateCache' = Some(loadState(stateCache, stateFile))
            /\ emails' = [emails EXCEPT ![a] = Tail(@)]
            /\ UNCHANGED <<pc, stateFile, invoked, replyCalls>>
       ELSE IF rule \in 2..5
       THEN \* markMessageProcessed, then markAsRead is awaited
            /\ stateCache' = st.cache
            /\ stateFile' = st.file
            /\ pc' = [pc EXCEPT ![a] = IF st.threw THEN catchPc(a) ELSE "marking"]
            /\ UNCHANGED <<emails, invoked, replyCalls>>
       ELSE \* runtime.processInbound(context) is called
            /\ stateCache' = Some(loadState(stateCache, stateFile))
            /\ invoked' = [invoked EXCEPT ![a][email.uid] = @ + 1]
            /\ replyCalls' = [replyCalls EXCEPT ![a] = 0]
            /\ pc' = [pc EXCEPT ![a] = "responder"]
            /\ UNCHANGED <<emails, stateFile>>
    /\ UNCHANGED <<client, retryDelay, aborted, mailbox, seen, now,
                   statusConnected, replied, passErrors, waits>>
    /\ UNCHANGED smtpVars

\* Whether the synchronous start of processEmail writes the state file.
startWrites(a) ==
    LET email == Head(emails[a]) IN
    /\ processEmailRule(email, a, stateCache, stateFile, now) \in 2..5
    /\ ~isMessageProcessed(stateCache, stateFile, email.messageId)

ProcessEmail(a) ==
    /\ processEmailStart(a, TRUE)
    /\ UNCHANGED budget

ProcessEmailWriteFail(a) ==
    /\ pc[a] = "batch" /\ emails[a] # <<>>
    /\ startWrites(a)
    /\ budget > 0
    /\ budget' = budget - 1
    /\ processEmailStart(a, FALSE)

\* Variant: the reply timestamp is recorded whatever sendEmail returned.
replyOutcome_alwaysRecords(cache, file, sender, t, ok, writeOk) ==
    recordReply(cache, file, sender, t, writeOk)

\* What the reply closure does with the result of sendEmail (lines 260-265):
\* recordReply when result.ok, a log line otherwise.
replyOutcome(cache, file, sender, t, ok, writeOk) ==
    IF ok THEN recordReply(cache, file, sender, t, writeOk)
    ELSE [cache |-> cache, file |-> file, threw |-> FALSE]

\* History: n more transports were created for the cache key.
noteCreated(cr, key, n) ==
    [k \in DOMAIN cr \cup {key} |->
        (IF k \in DOMAIN cr THEN cr[k] ELSE 0) + (IF k = key THEN n ELSE 0)]

\* The responder calls reply(text) (lines 237-258): getSmtpTransporter,
\* then sendEmail is awaited.
ResponderReply(a) ==
    LET got == getSmtpTransporter(transporterCache, handles, smtpOptions(a)) IN
    /\ pc[a] = "responder"
    /\ replyCalls[a] < MaxReplyCalls
    /\ replyCalls' = [replyCalls EXCEPT ![a] = @ + 1]
    /\ transporterCache' = got.cache
    /\ handles' = got.handles
    /\ created' = noteCreated(created, smtpKey(smtpOptions(a)), got.handles - handles)
    /\ pc' = [pc EXCEPT ![a] = "sending"]
    /\ UNCHANGED probe
    /\ UNCHANGED <<client, retryDelay, aborted, emails, mailbox, seen, stateCache,
                   stateFile, now, budget, statusConnected, invoked, replied,
                   lastRule, passErrors, waits>>

\* sendEmail resolved with ok = true (lines 260-262): recordReply, and the
\* result goes back to the responder (as a rejection when the write threw).
sendOk(a, writeOk) ==
    LET email == Head(emails[a])
        st == replyOutcome(stateCache, stateFile, email.from, now, TRUE, writeOk)
    IN
    /\ pc[a] = "sending"
    /\ stateCache' = st.cache
    /\ stateFile' = st.file
    /\ replied' = [replied EXCEPT ![a][email.uid] = @ + 1]
    /\ pc' = [pc EXCEPT ![a] = "responder"]
    /\ UNCHANGED <<client, retryDelay, aborted, emails, replyCalls, mailbox, seen,
                   now, statusConnected, invoked, lastRule, passErrors, waits>>
    /\ UNCHANGED smtpVars

SendOk(a) ==
    /\ sendOk(a, TRUE)
    /\ UNCHANGED budget

SendOkWriteFail(a) ==
    /\ budget > 0
    /\ budget' = budget - 1
    /\ sendOk(a, FALSE)

\* sendEmail resolved with ok = false (lines 263-265).
SendFail(a) ==
    LET email == Head(emails[a])
        st == replyOutcome(stateCache, stateFile, email.from, now, FALSE, TRUE)
    IN
    /\ pc[a] = "sending"
    /\ budget > 0
    /\ budget' = budget - 1
    /\ stateCache' = st.cache
    /\ stateFile' = st.file
    /\ pc' = [pc EXCEPT ![a] = "responder"]
    /\ UNCHANGED <<client, retryDelay, aborted, emails, replyCalls, mailbox, seen,
                   now, statusConnected, invoked, replied,
                   lastRule, passErrors, waits>>
    /\ UNCHANGED smtpVars

\* processInbound resolved (lines 285-289): markMessageProcessed, then
\* markAsRead is awaited.
responderReturn(a, writeOk) ==
    LET email == Head(emails[a])
        st == markMessageProcessed(stateCache, stateFile, email.messageId, now, writeOk)
    IN
    /\ pc[a] = "responder"
    /\ stateCache' = st.cache
    /\ stateFile' = st.file
    /\ pc' = [pc EXCEPT ![a] = IF st.threw THEN catchPc(a) ELSE "marking"]
    /\ passErrors' = [passErrors EXCEPT ![a][email.uid] = IF st.threw THEN @ + 1 ELSE @]
    /\ UNCHANGED <<client, retryDelay, aborted, emails, replyCalls, mailbox, seen,
                   now, statusConnected, invoked, replied, lastRule, waits>>
    /\ UNCHANGED smtpVars

ResponderReturn(a) ==
    /\ responderReturn(a, TRUE)
    /\ UNCHANGED budget

ResponderReturnWriteFail(a) ==
    /\ pc[a] = "responder"
    /\ ~isMessageProcessed(stateCache, stateFile, Head(emails[a]).messageId)
    /\ budget > 0
    /\ budget' = budget - 1
    /\ responderReturn(a, FALSE)

\* processInbound rejected: the catch of the main loop takes it.
ResponderThrow(a) ==
    /\ pc[a] = "responder"
    /\ budget > 0
    /\ budget' = budget - 1
    /\ pc' = [pc EXCEPT ![a] = catchPc(a)]
    /\ passErrors' = [passErrors EXCEPT ![a][Head(emails[a]).uid] = @ + 1]
    /\ UNCHANGED <<client, retryDelay, aborted, emails, replyCalls, mailbox, seen,
                   stateCache, stateFile, now, statusConnected, invoked, replied,
                   lastRule, waits>>
    /\ UNCHANGED smtpVars

\* markAsRead resolved (imap.ts lines 79-90): processEmail returns and the
\* for loop goes on.
MarkOk(a) ==
    /\ pc[a] = "marking"
    /\ seen' = [seen EXCEPT ![a] = @ \cup {Head(emails[a]).uid}]
    /\ emails' = [emails EXCEPT ![a] = Tail(@)]
    /\ replyCalls' = [replyCalls EXCEPT ![a] = 0]
    /\ pc' = [pc EXCEPT ![a] = "batch"]
    /\ UNCHANGED <<client, retryDelay, aborted, mailbox, stateCache,
                   stateFile, now, budget, statusConnected, invoked, replied,
                   lastRule, passErrors, waits>>
    /\ UNCHANGED smtpVars

\* markAsRead rejected.
MarkFail(a) ==
    /\ pc[a] = "marking"
    /\ budget > 0
    /\ budget' = budget - 1
    /\ pc' = [pc EXCEPT ![a] = catchPc(a)]
    /\ UNCHANGED <<client, retryDelay, aborted, emails, replyCalls, mailbox, seen,
                   stateCache, stateFile, now, statusConnected, invoked, replied,
                   lastRule, passErrors, waits>>
    /\ UNCHANGED smtpVars

\* client.logout() of the catch block settled, either way (lines 158-165):
\* the client is dropped and the poll sleep is started.
LogoutDone(a) ==
    /\ pc[a] = "logout"
    /\ client' = clientDropped(client, a)
    /\ emails' = [emails EXCEPT ![a] = <<>>]
    /\ pc' = [pc EXCEPT ![a] = "sleeping"]
    /\ lastRule' = [lastRule EXCEPT ![a] = -1]
    /\ replyCalls' = [replyCalls EXCEPT ![a] = 0]
    /\ UNCHANGED <<retryDelay, aborted, mailbox, seen, stateCache,
                   stateFile, now, budget, statusConnected, invoked, replied,
                   passErrors, waits>>
    /\ UNCHANGED smtpVars

\* The timer of the poll sleep fired (lines 169, 294): the whole interval
\* has passed.
Wake(a) ==
    /\ pc[a] = "sleeping"
    /\ pc' = [pc EXCEPT ![a] = "top"]
    /\ UNCHANGED <<client, retryDelay, aborted, emails, replyCalls, mailbox, seen,
                   stateCache, stateFile, now, budget, statusConnected, invoked,
                   replied, lastRule, passErrors, waits>>
    /\ UNCHANGED smtpVars

\* client.logout() of the cleanup settled (lines 173-179): the monitor
\* returns.
CloseDone(a) ==
    /\ pc[a] = "closing"
    /\ pc' = [pc EXCEPT ![a] = "stopped"]
    /\ UNCHANGED <<client, retryDelay, aborted, emails, replyCalls, mailbox, seen,
                   stateCache, stateFile, now, budget, statusConnected, invoked,
                   replied, lastRule, passErrors, waits>>
    /\ UNCHANGED smtpVars

\* ------------------------------------------------------------------------
\* Environment
\* ------------------------------------------------------------------------
\* The orchestrator fires the account's abort signal.  The abort event is
\* dispatched once, to the listeners registered at that moment: the
\* listener of a poll sleep in progress (lines 296-299) ends that sleep; a
\* sleep started later registers its listener on a signal that has already
\* fired, and the backoff sleep (line 111) registers none.
Abort(a) ==
    /\ pc[a] \notin {"idle", "stopped"}
    /\ ~aborted[a]
    /\ aborted' = [aborted EXCEPT ![a] = TRUE]
    /\ pc' = [pc EXCEPT ![a] = IF @ = "sleeping" THEN "top" ELSE @]
    /\ UNCHANGED <<client, retryDelay, emails, replyCalls, mailbox, seen,
                   stateCache, stateFile, now, budget, statusConnected, invoked,
                   replied, lastRule, passErrors, waits>>
    /\ UNCHANGED smtpVars

\* Time passes.
Tick ==
    /\ now < MaxTicks * TickMs
    /\ now' = now + TickMs
    /\ UNCHANGED <<pc, client, retryDelay, aborted, emails, replyCalls, mailbox, seen,
                   stateCache, stateFile, budget, statusConnected, invoked,
                   replied, lastRule, passErrors, waits>>
    /\ UNCHANGED smtpVars

\* The process is stopped and started again between two poll cycles:
\* module state (stateCache, transporterCache, the monitors' locals) is lost, the state file
\* and the mailboxes are kept.
Restart ==
    /\ budget > 0
    /\ \A a \in Accounts : pc[a] \in {"idle", "sleeping", "stopped"}
    /\ \E a \in Accounts : Started(a)
    /\ budget' = budget - 1
    /\ pc' = [a \in Accounts |-> IF Started(a) THEN "top" ELSE "idle"]
    /\ client' = [a \in Accounts |-> FALSE]
    /\ retryDelay' = [a \in Accounts |-> BaseRetryDelay]
    /\ aborted' = [a \in Accounts |-> FALSE]
    /\ emails' = [a \in Accounts |-> <<>>]
    /\ replyCalls' = [a \in Accounts |-> 0]
    /\ stateCache' = NULL
    /\ statusConnected' = [a \in Accounts |-> "unset"]
    /\ waits' = [a \in Accounts |-> <<>>]
    /\ transporterCache' = emptyTransporterCache
    /\ handles' = 0
    /\ created' = [k \in {} |-> 0]
    /\ UNCHANGED <<mailbox, seen, stateFile, now, invoked, replied, lastRule, passErrors,
                   probe>>

Next ==
    \/ \E a \in Accounts :
          \/ LoopTop(a) \/ ConnectOk(a) \/ ConnectFail(a) \/ BackoffDone(a)
          \/ FetchOk(a) \/ FetchFail(a) \/ BatchEnd(a)
          \/ ProcessEmail(a) \/ ProcessEmailWriteFail(a)
          \/ ResponderReply(a) \/ SendOk(a) \/ SendOkWriteFail(a) \/ SendFail(a)
          \/ ResponderReturn(a) \/ ResponderReturnWriteFail(a) \/ ResponderThrow(a)
          \/ MarkOk(a) \/ MarkFail(a) \/ LogoutDone(a) \/ Wake(a) \/ CloseDone(a)
          \/ Abort(a)
    \/ Tick
    \/ Restart

Spec == Init /\ [][Next]_vars

SpecTwo == InitTwo /\ [][Next]_vars

\* One run of the monitors, without process restart, in which every pending
\* call and timer of an account eventually settles and its continuation
\* runs.
MonitorStep(a) ==
    \/ LoopTop(a) \/ ConnectOk(a) \/ ConnectFail(a) \/ BackoffDone(a)
    \/ FetchOk(a) \/ FetchFail(a) \/ BatchEnd(a)
    \/ ProcessEmail(a) \/ ProcessEmailWriteFail(a)
    \/ ResponderReply(a) \/ SendOk(a) \/ SendOkWriteFail(a) \/ SendFail(a)
    \/ ResponderReturn(a) \/ ResponderReturnWriteFail(a) \/ ResponderThrow(a)
    \/ MarkOk(a) \/ MarkFail(a) \/ LogoutDone(a) \/ Wake(a) \/ CloseDone(a)

NextLive == \E a \in Accounts : MonitorStep(a) \/ Abort(a)

SpecLive ==
    /\ InitLive
    /\ [][NextLive]_vars
    /\ \A a \in Accounts : WF_vars(MonitorStep(a))

\* Two monitors side by side in one run of the process.
SpecIso == InitIso /\ [][NextLive]_vars

\* The connection side of the loop alone.
NextConn ==
    \E a \in Accounts :
        \/ LoopTop(a) \/ ConnectOk(a) \/ ConnectFail(a) \/ BackoffDone(a)
        \/ FetchOk(a) \/ FetchFail(a) \/ BatchEnd(a)
        \/ LogoutDone(a) \/ Wake(a) \/ CloseDone(a) \/ Abort(a)

SpecConn == InitConn /\ [][NextConn]_vars

\* ------------------------------------------------------------------------
\* smtp.ts called directly (as channel.ts and the tests do)
\* ------------------------------------------------------------------------
SeqsUpTo(chars, n) == UNION {[1..k -> chars] : k \in 0..n}

SubjectChars == {"R", "r", "e", ":", " ", CAPITAL_SIGMA}
Subjects == SeqsUpTo(SubjectChars, MaxSubjectLen)
Prefixes == {NULL} \cup {Some(x) : x \in SeqsUpTo(SubjectChars, MaxPrefixLen)}

\* Options of getSmtpTransporter; two of them differ and have the same key
SmtpOptionsSet ==
    [host : {<<"h">>, <<"h", ":", "2">>}, port : {2, 25},
     user : {<<"u">>, <<"2", ":", "u">>},
     password : {"secret"}, tls : {FALSE}, startTls : {TRUE}]

ThreadInfos ==
    {NULL,
     Some([inReplyTo |-> <<>>, references |-> <<>>]),
     Some([inReplyTo |-> <<"i">>, references |-> << <<"h">>, <<"i">> >>])}

SendEmailOptions ==
    [from : {<<"b">>}, fromName : {NULL, Some(<<>>), Some(<<"B">>)},
     to : {<<"a">>}, subject : {<<"s">>}, text : {<<"t">>},
     html : {NULL, Some(<<"p">>)},
     signature : {NULL, Some(<<>>), Some(<<"-">>)},
     threadInfo : ThreadInfos]

\* Message ids given to buildThreadInfo, and the chains made of them
ThreadIds == {"p", "x"}
ThreadChains == {NULL} \cup {Some(c) : c \in SeqsUpTo(ThreadIds, MaxChainLen)}

\* What transporter.sendMail does with the message
SendOutcomes ==
    [kind : {"resolved"}, value : {<<"i", "d">>}]
    \cup [kind : {"rejectedError", "threwError"}, value : {<<>>, <<"E">>}]
    \cup [kind : {"rejectedString"}, value : {<<"x">>}]

SendOutcomesNumber == [kind : {"rejectedNumber"}, value : {42}]

\* The process has no monitor running and one smtp.ts call of a caller is
\* about to be made: buildReplySubject or sendEmail on given arguments, or
\* calls of getSmtpTransporter and clearTransporterCache.
InitSmtp ==
    /\ InitCommon
    /\ stateFile = NULL
    /\ pc = [a \in Accounts |-> "idle"]
    /\ mailbox = [a \in Accounts |-> <<>>]
    /\ budget = 0
    /\ \/ probe = NoCall
       \/ \E s \in Subjects, p \in Prefixes :
             probe = [op |-> "buildReplySubject", args |-> <<s, p>>, out |-> <<>>]
       \/ \E o \in SendEmailOptions, outcome \in SendOutcomes :
             probe = [op |-> "sendEmail", args |-> <<o, outcome>>, out |-> <<>>]
       \/ \E o \in SendEmailOptions, outcome \in SendOutcomesNumber :
             probe = [op |-> "sendEmail", args |-> <<o, outcome>>, out |-> <<>>]
       \/ \E id \in ThreadIds \cup {""}, chain \in ThreadChains :
             probe = [op |-> "buildThreadInfo", args |-> <<id, chain>>, out |-> <<>>]

\* getSmtpTransporter(opts) is called.
GetSmtpTransporter(opts) ==
    LET got == getSmtpTransporter(transporterCache, handles, opts) IN
    /\ probe.op \in {"none", "getSmtpTransporter", "clearTransporterCache"}
    /\ handles < MaxHandles
    /\ transporterCache' = got.cache
    /\ handles' = got.handles
    /\ created' = noteCreated(created, smtpKey(opts), got.handles - handles)
    /\ probe' = [op |-> "getSmtpTransporter", args |-> <<opts>>,
                 out |-> <<got.transporter>>]
    /\ UNCHANGED monitorVars

\* clearTransporterCache() is called.
ClearTransporterCache ==
    /\ probe.op \in {"none", "getSmtpTransporter", "clearTransporterCache"}
    /\ handles < MaxHandles
    /\ transporterCache' = clearTransporterCache(transporterCache)
    /\ created' = [k \in {} |-> 0]
    /\ probe' = [op |-> "clearTransporterCache", args |-> <<>>, out |-> <<>>]
    /\ UNCHANGED <<monitorVars, handles>>

\* buildReplySubject is called on the subject, and then once more on what
\* it returned, with the same prefix.
BuildReplySubject ==
    LET subject == IF probe.out = <<>> THEN probe.args[1] ELSE probe.out[1] IN
    /\ probe.op = "buildReplySubject"
    /\ Len(probe.out) < 2
    /\ probe' = [probe EXCEPT !.out = Append(@, buildReplySubject(subject, probe.args[2]))]
    /\ UNCHANGED <<monitorVars, transporterCache, handles, created>>

\* sendEmail is awaited; out holds what its promise settled with.
SendEmail ==
    /\ probe.op = "sendEmail"
    /\ probe.out = <<>>
    /\ probe' = [probe EXCEPT !.out = <<sendEmail(probe.args[1], probe.args[2])>>]
    /\ UNCHANGED <<monitorVars, transporterCache, handles, created>>

\* buildThreadInfo is called, at some time and with some random text.
BuildThreadInfo ==
    /\ probe.op = "buildThreadInfo"
    /\ probe.out = <<>>
    /\ \E r \in {"k3", "z9"} :
          probe' = [probe EXCEPT !.out =
                       <<buildThreadInfo(probe.args[1], probe.args[2], now, r)>>]
    /\ UNCHANGED <<monitorVars, transporterCache, handles, created>>

NextSmtp ==
    \/ \E opts \in SmtpOptionsSet : GetSmtpTransporter(opts)
    \/ ClearTransporterCache
    \/ BuildReplySubject
    \/ SendEmail
    \/ BuildThreadInfo

SpecSmtp == InitSmtp /\ [][NextSmtp]_vars

\* ------------------------------------------------------------------------
\* state.ts called directly
\* ------------------------------------------------------------------------
StoreIds == {<<"m1">>, <<"m2">>}
StoreSenders == {ADDR_alice, ADDR_bot}

Call(op, args, out) == [op |-> op, args |-> args, out |-> out]

\* No monitor is running; the state file is missing or holds text that is
\* no JSON.
InitStore ==
    /\ InitCommon
    /\ pc = [a \in Accounts |-> "idle"]
    /\ mailbox = [a \in Accounts |-> <<>>]
    /\ probe = NoCall
    /\ budget = MaxStoreFaults
    /\ stateFile \in {NULL, Some(Garbage)}

storeCall(op, args, st) ==
    /\ stateCache' = st.cache
    /\ stateFile' = st.file
    /\ probe' = Call(op, args, <<[threw |-> st.threw]>>)
    /\ UNCHANGED <<pc, client, retryDelay, aborted, emails, replyCalls, mailbox, seen,
                   now, statusConnected, invoked, replied, lastRule, passErrors, waits,
                   transporterCache, handles, created>>

\* markMessageProcessed(id) is called and writeFileSync succeeds, or the
\* id is already stored and nothing is written.
StoreMark(id) ==
    /\ storeCall("markMessageProcessed", <<id>>,
                 markMessageProcessed(stateCache, stateFile, id, now, TRUE))
    /\ UNCHANGED budget

\* markMessageProcessed(id) is called and writeFileSync throws.
StoreMarkWriteFail(id) ==
    /\ budget > 0
    /\ ~isMessageProcessed(stateCache, stateFile, id)
    /\ budget' = budget - 1
    /\ storeCall("markMessageProcessed", <<id>>,
                 markMessageProcessed(stateCache, stateFile, id, now, FALSE))

\* recordReply(sender) is called and writeFileSync succeeds.
StoreRecord(sender) ==
    /\ Len(timestampsOf(loadState(stateCache, stateFile), sender)) < MaxStoreReplies
    /\ storeCall("recordReply", <<sender>>,
                 recordReply(stateCache, stateFile, sender, now, TRUE))
    /\ UNCHANGED budget

\* recordReply(sender) is called and writeFileSync throws.
StoreRecordWriteFail(sender) ==
    /\ budget > 0
    /\ Len(timestampsOf(loadState(stateCache, stateFile), sender)) < MaxStoreReplies
    /\ budget' = budget - 1
    /\ storeCall("recordReply", <<sender>>,
                 recordReply(stateCache, stateFile, sender, now, FALSE))

\* A call that reads the store and returns a value: loadState sets the
\* cache.
storeQuery(op, args, value) ==
    /\ stateCache' = Some(loadState(stateCache, stateFile))
    /\ probe' = Call(op, args, <<value>>)
    /\ UNCHANGED <<pc, client, retryDelay, aborted, emails, replyCalls, mailbox, seen,
                   stateFile, now, budget, statusConnected, invoked, replied, lastRule,
                   passErrors, waits, transporterCache, handles, created>>

\* checkRateLimit(sender, maxPerHour) is called.
StoreCheck(sender, maxPerHour) ==
    storeQuery("checkRateLimit", <<sender, maxPerHour>>,
               checkRateLimit(stateCache, stateFile, sender, maxPerHour, now))

\* isMessageProcessed(id) is called.
StoreIsProcessed(id) ==
    storeQuery("isMessageProcessed", <<id>>,
               isMessageProcessed(stateCache, stateFile, id))

\* loadState() is called while the state directory can be prepared and the
\* file can be read.
StoreLoad ==
    LET got == loadStateIn(stateCache, stateFile, TRUE, TRUE) IN
    storeQuery("loadState", <<TRUE, TRUE>>, got)

\* loadState() is called while mkdirSync or readFileSync throws.
StoreLoadFail(dirOk, readOk) ==
    LET got == loadStateIn(stateCache, stateFile, dirOk, readOk) IN
    /\ budget > 0
    /\ stateCache = NULL
    /\ ~(dirOk /\ readOk)
    /\ readOk \/ stateFile # NULL
    /\ budget' = budget - 1
    /\ stateCache' = IF got.threw THEN stateCache ELSE Some(got.state)
    /\ probe' = Call("loadState", <<dirOk, readOk>>, <<got>>)
    /\ UNCHANGED <<pc, client, retryDelay, aborted, emails, replyCalls, mailbox, seen,
                   stateFile, now, statusConnected, invoked, replied, lastRule,
                   passErrors, waits, transporterCache, handles, created>>

\* clearState() is called; before: what the store held until then.
storeClear(unlinkOk) ==
    LET st == clearState(stateCache, stateFile, unlinkOk) IN
    /\ stateCache' = st.cache
    /\ stateFile' = st.file
    /\ probe' = [op |-> "clearState", args |-> <<>>, out |-> <<[threw |-> st.threw]>>,
                 before |-> loadState(stateCache, stateFile)]
    /\ UNCHANGED <<pc, client, retryDelay, aborted, emails, replyCalls, mailbox, seen,
                   now, statusConnected, invoked, replied, lastRule, passErrors, waits,
                   transporterCache, handles, created>>

\* clearState() is called and returns.
StoreClear ==
    /\ storeClear(TRUE)
    /\ UNCHANGED budget

\* clearState() is called and unlinkSync throws.
StoreClearUnlinkFail ==
    /\ budget > 0
    /\ stateFile # NULL
    /\ budget' = budget - 1
    /\ storeClear(FALSE)

\* The process is started again: stateCache is null, the file is kept.
StoreRestart ==
    /\ stateCache # NULL
    /\ stateCache' = NULL
    /\ probe' = Call("restart", <<>>, <<>>)
    /\ UNCHANGED <<pc, client, retryDelay, aborted, emails, replyCalls, mailbox, seen,
                   stateFile, now, budget, statusConnected, invoked, replied, lastRule,
                   passErrors, waits, transporterCache, handles, created>>

NextStore ==
    \/ \E id \in StoreIds :
          StoreMark(id) \/ StoreMarkWriteFail(id) \/ StoreIsProcessed(id)
    \/ \E sender \in StoreSenders :
          \/ StoreRecord(sender) \/ StoreRecordWriteFail(sender)
          \/ \E maxPerHour \in 1..MaxStoreReplies : StoreCheck(sender, maxPerHour)
    \/ StoreLoad
    \/ \E dirOk \in BOOLEAN, readOk \in BOOLEAN : StoreLoadFail(dirOk, readOk)
    \/ StoreClear
    \/ StoreClearUnlinkFail
    \/ StoreRestart
    \/ Tick

SpecStore == InitStore /\ [][NextStore]_vars

\* ------------------------------------------------------------------------
\* state.ts with a state file that is nearly full
\* ------------------------------------------------------------------------
\* The k-th message id ever marked
NthId(k) == <<k>>

\* The ids number from..to in the order in which they were marked
IdRun(from, to) == [i \in 1..(to - from + 1) |-> NthId(from + i - 1)]

\* Earlier runs have marked n messages, the cap or a few less.
InitCap ==
    /\ InitCommon
    /\ pc = [a \in Accounts |-> "idle"]
    /\ mailbox = [a \in Accounts |-> <<>>]
    /\ probe = NoCall
    /\ budget = MaxStoreFaults
    /\ \E n \in (MAX_PROCESSED_IDS - MaxCapRoom)..MAX_PROCESSED_IDS :
          stateFile = Some([processedIds |-> IdRun(1, n), rateLimits |-> emptyRateLimits])

\* The id that follows the newest one of the store
nextId(st) == NthId(st.processedIds[Len(st.processedIds)][1] + 1)

\* markMessageProcessed is called for a message never marked before.
CapMarkNew ==
    LET id == nextId(loadState(stateCache, stateFile)) IN
    /\ id[1] <= MAX_PROCESSED_IDS + MaxCapExtra
    /\ StoreMark(id)

CapMarkNewWriteFail ==
    LET id == nextId(loadState(stateCache, stateFile)) IN
    /\ id[1] <= MAX_PROCESSED_IDS + MaxCapExtra
    /\ StoreMarkWriteFail(id)

\* markMessageProcessed is called for the oldest or the newest id stored.
CapMarkStored ==
    LET ids == loadState(stateCache, stateFile).processedIds IN
    \E id \in {ids[1], ids[Len(ids)]} : StoreMark(id)

\* isMessageProcessed is called for the first id ever marked or for the
\* oldest one stored.
CapIsProcessed ==
    LET ids == loadState(stateCache, stateFile).processedIds IN
    \E id \in {NthId(1), ids[1]} : StoreIsProcessed(id)

NextCap ==
    \/ CapMarkNew
    \/ CapMarkNewWriteFail
    \/ CapMarkStored
    \/ CapIsProcessed
    \/ StoreRecord(ADDR_alice)
    \/ StoreRestart

SpecCap == InitCap /\ [][NextCap]_vars

\* ------------------------------------------------------------------------
\* A mailbox with messages the normalizer drops
\* ------------------------------------------------------------------------
\* A message that parses and has no From address
NoSender(uid) == Raw(uid, "m9", <<>>, noHeaders)

FetchMailboxes ==
    { <<Unparsable(1), SecondMessage>>,
      <<NoSender(1), SecondMessage>>,
      <<Raw(1, "m1", ADDR_alice, noHeaders), SecondMessage>>,
      <<Raw(1, "m1", ADDR_alice, noHeaders), SecondMessage, Unparsable(3)>>,
      <<Raw(1, "m1", ADDR_alice, noHeaders), SecondMessage, NoSender(3)>> }

\* One account polling one of these mailboxes.
InitFetch ==
    /\ InitCommon
    /\ stateFile = NULL
    /\ probe = NoCall
    /\ pc = [a \in Accounts |-> IF a = "a1" THEN "top" ELSE "idle"]
    /\ \E box \in FetchMailboxes :
          mailbox = [a \in Accounts |-> IF a = "a1" THEN box ELSE <<>>]
    /\ budget = MaxFaultsFetch

\* fetchUnreadEmails(client, folder, limit) is called on the first
\* account's folder as it is now, and the IMAP command named by `failure`
\* rejects.
FetchUnreadEmails(limit, failure) ==
    /\ probe' = [op |-> "fetchUnreadEmails",
                 args |-> <<limit, failure>>,
                 out |-> <<fetchUnreadEmailsIn(mailbox["a1"], seen["a1"], limit, now, failure)>>,
                 box |-> mailbox["a1"],
                 seenUids |-> seen["a1"]]
    /\ UNCHANGED <<monitorVars, transporterCache, handles, created>>

NextFetch ==
    \/ \E a \in Accounts : MonitorStep(a) \/ Abort(a)
    \/ \E limit \in 1..MaxLimit, failure \in FetchFailures \cup {"none"} :
          FetchUnreadEmails(limit, failure)

SpecFetch == InitFetch /\ [][NextFetch]_vars

\* ------------------------------------------------------------------------
\* A run without cancellation in which every pending call settles
\* ------------------------------------------------------------------------
\* A folder with one message of alice followed by as many messages without
\* sender as one fetch takes
Crowded ==
    [i \in 1..(FetchLimit + 1) |->
        IF i = 1 THEN Raw(1, "m1", ADDR_alice, noHeaders) ELSE NoSender(i)]

InitProgress ==
    /\ InitCommon
    /\ stateFile = NULL
    /\ probe = NoCall
    /\ pc = [a \in Accounts |-> IF a = "a1" THEN "top" ELSE "idle"]
    /\ \E box \in FetchMailboxes \cup {Crowded} :
          mailbox = [a \in Accounts |-> IF a = "a1" THEN box ELSE <<>>]
    /\ budget = MaxFaultsProgress

\* The steps of a monitor whose state writes and SMTP sends succeed
ProgressStep(a) ==
    \/ LoopTop(a) \/ ConnectOk(a) \/ ConnectFail(a) \/ BackoffDone(a)
    \/ FetchOk(a) \/ FetchFail(a) \/ BatchEnd(a)
    \/ ProcessEmail(a)
    \/ ResponderReply(a) \/ SendOk(a)
    \/ ResponderReturn(a) \/ ResponderThrow(a)
    \/ MarkOk(a) \/ MarkFail(a) \/ LogoutDone(a) \/ Wake(a)

NextProgress == \E a \in Accounts : ProgressStep(a)

SpecProgress ==
    /\ InitProgress
    /\ [][NextProgress]_vars
    /\ \A a \in Accounts : WF_vars(ProgressStep(a))

\* ------------------------------------------------------------------------
\* Vocabulary of the properties
\* ------------------------------------------------------------------------
\* The store as the next loadState() call sees it
store == loadState(stateCache, stateFile)
storeNext == loadState(stateCache', stateFile')

\* The raw messages of an account's mailbox and their normalized senders
RawSet(a) == {mailbox[a][i] : i \in 1..Len(mailbox[a])}
SenderOf(raw) == extractEmailAddress(raw.from)

\* Reply timestamps of a sender that lie inside the window at time t
RecentCount(st, sender, t) ==
    Cardinality({i \in 1..Len(timestampsOf(st, sender)) :
                    t - timestampsOf(st, sender)[i] < RATE_LIMIT_WINDOW_MS})

\* Account a runs the synchronous start of processEmail in this step.
PassStep(a) ==
    /\ pc[a] = "batch" /\ emails[a] # <<>> /\ ~aborted[a]
    /\ (pc'[a] # pc[a] \/ emails'[a] # emails[a])

C1_StepOf(a) ==
    /\ invoked'[a] # invoked[a] =>
          /\ PassStep(a)
          /\ ~arrayIncludes(store.processedIds, Head(emails[a]).messageId)
    /\ replied'[a] # replied[a] =>
          /\ pc[a] = "sending" /\ lastRule[a] = 0
          /\ ~arrayIncludes(store.processedIds, Head(emails[a]).messageId)
    /\ (PassStep(a) /\ arrayIncludes(store.processedIds, Head(emails[a]).messageId)) =>
          /\ lastRule'[a] = 1
          /\ pc'[a] = "batch" /\ emails'[a] = Tail(emails[a])
          /\ invoked' = invoked /\ replied' = replied
          /\ stateFile' = stateFile /\ seen' = seen
    /\ \A u \in Uids : invoked'[a][u] <= 1 + passErrors'[a][u]

EqualsIgnoreCase(s, t) ==
    Len(s) = Len(t) /\ \A i \in 1..Len(s) : LowerChar(s[i]) = LowerChar(t[i])

Rule1(email) == arrayIncludes(store.processedIds, email.messageId)
Rule2(a, email) == EqualsIgnoreCase(email.from, accountEmail(a))
Rule3(email) == isAutoReply(email)
Rule4(email) == isIgnoredSender(email.from)
Rule5(a, email) == RecentCount(store, email.from, now) >= maxReplies(a)

RuleHolds(r, a, email) ==
    CASE r = 1 -> Rule1(email)
      [] r = 2 -> Rule2(a, email)
      [] r = 3 -> Rule3(email)
      [] r = 4 -> Rule4(email)
      [] r = 5 -> Rule5(a, email)

\* The first rule, in the order 1..5, that matches; 0 when none does.
FirstRule(a, email) ==
    IF \E r \in 1..5 : RuleHolds(r, a, email)
    THEN CHOOSE r \in 1..5 : RuleHolds(r, a, email) /\ \A q \in 1..(r - 1) : ~RuleHolds(q, a, email)
    ELSE 0

\* The parsed form of a raw message of the mailbox
EmailOf(raw) == parseMailToEmail(raw, 0)[1]

\* Messages of sender s in a's mailbox that rules 2-4 let through
Qualifying(a, s) ==
    {raw \in RawSet(a) :
        /\ SenderOf(raw) = s
        /\ ~Rule2(a, EmailOf(raw)) /\ ~Rule3(EmailOf(raw)) /\ ~Rule4(EmailOf(raw))}
Forwarded(a, s) == {raw \in Qualifying(a, s) : invoked[a][raw.uid] > 0}
Consumed(a, s) ==
    {raw \in Qualifying(a, s) : arrayIncludes(store.processedIds, raw.messageId)}
Senders == {SenderOf(raw) : raw \in UNION {RawSet(a) : a \in Accounts}}

\* The message whose pass is in progress in account a
InProgress(a, raw) ==
    pc[a] \in {"responder", "sending"} /\ Head(emails[a]).uid = raw.uid

\* ------------------------------------------------------------------------
\* C2  Rate limiting.
\* As claimed: of N+1 messages of one sender that pass rules 1-4, handled
\* by one account inside one window, exactly N are forwarded to the
\* responder.
\* ------------------------------------------------------------------------
C2_ExactlyNForwarded ==
    \A a \in Accounts : \A s \in Senders :
        now < RATE_LIMIT_WINDOW_MS =>
            /\ Cardinality(Forwarded(a, s)) <= maxReplies(a)
            /\ Cardinality(Consumed(a, s)) >= maxReplies(a) + 1 =>
                   Cardinality(Forwarded(a, s)) = maxReplies(a)

\* C2 as amended: a message that passes rules 1-4 is forwarded exactly when
\* fewer than N successful replies to its sender are recorded inside the
\* window at that moment, and is otherwise ended by rule 5 without the
\* responder; and in a run without failures in which each forwarded
\* message got exactly one successful reply, inside one window at most N
\* messages of a sender are forwarded, exactly N once N+1 were handled.
C2_StepOf(a) ==
    LET email == Head(emails[a]) IN
    (PassStep(a) /\ ~Rule1(email) /\ ~Rule2(a, email) /\ ~Rule3(email) /\ ~Rule4(email)) =>
        IF RecentCount(store, email.from, now) < maxReplies(a)
        THEN /\ invoked'[a][email.uid] = invoked[a][email.uid] + 1
             /\ pc'[a] = "responder" /\ lastRule'[a] = 0
        ELSE /\ invoked' = invoked
             /\ pc'[a] # "responder" /\ lastRule'[a] = 5

C2_OneReplyEach ==
    (budget = MaxFaults /\ now < RATE_LIMIT_WINDOW_MS) =>
        \A a \in Accounts : \A s \in Senders :
            (\A raw \in Forwarded(a, s) : InProgress(a, raw) \/ replied[a][raw.uid] = 1)
            => /\ Cardinality(Forwarded(a, s)) <= maxReplies(a)
               /\ Cardinality(Consumed(a, s)) >= maxReplies(a) + 1 =>
                      Cardinality(Forwarded(a, s)) = maxReplies(a)

C2_ForwardedWhileBelowCeiling ==
    /\ [][\A a \in Accounts : C2_StepOf(a)]_vars
    /\ []C2_OneReplyEach

\* The first message of alice was forwarded and replied to once, the
\* second was ended by rule 5 and is marked, with no failure in the run.
C2_Witness ==
    /\ budget = MaxFaults /\ now < RATE_LIMIT_WINDOW_MS
    /\ invoked["a1"] = <<1, 0>> /\ replied["a1"] = <<1, 0>>
    /\ lastRule["a1"] = 5 /\ pc["a1"] = "batch" /\ emails["a1"] = <<>>
    /\ seen["a1"] = {1, 2}
    /\ Cardinality(Consumed("a1", ADDR_alice)) = 2

\* ------------------------------------------------------------------------
\* C3  Reply ceiling: for one account, the successful replies recorded for
\* a sender inside the window never exceed the account's ceiling, whatever
\* the responder does.
\* ------------------------------------------------------------------------
C3_RepliesWithinCeiling ==
    \A a \in Accounts : \A s \in Senders :
        Started(a) => RecentCount(store, s, now) <= maxReplies(a)

\* ------------------------------------------------------------------------
\* C4  Cross-account rate limiting: with two accounts of ceiling N polling
\* concurrently, the successful replies to one sender recorded inside the
\* window, over both accounts, never exceed N.  Said here for responders
\* that reply at most once per message, which the claim covers.
\* ------------------------------------------------------------------------
C4_SharedCeilingHolds ==
    (\A a \in Accounts : \A u \in Uids : replied[a][u] <= 1) =>
        \A s \in Senders : RecentCount(store, s, now) <= Ceiling

\* ------------------------------------------------------------------------
\* C5  The responder is invoked only by the synchronous start of a pass in
\* which none of the five rules, taken in the order 1..5, matches, and then
\* exactly once; when a rule matches, the pass ends at the first matching
\* rule without invoking the responder.
\* ------------------------------------------------------------------------
C5_StepOf(a) ==
    LET email == Head(emails[a]) IN
    /\ invoked'[a] # invoked[a] =>
          /\ PassStep(a)
          /\ \A r \in 1..5 : ~RuleHolds(r, a, email)
          /\ invoked'[a] = [invoked[a] EXCEPT ![email.uid] = @ + 1]
    /\ PassStep(a) =>
          /\ lastRule'[a] = FirstRule(a, email)
          /\ IF FirstRule(a, email) = 0
             THEN pc'[a] = "responder" /\ invoked'[a][email.uid] = invoked[a][email.uid] + 1
             ELSE pc'[a] # "responder" /\ invoked' = invoked /\ replied' = replied

C5_ResponderOnlyAfterFilters == [][\A a \in Accounts : C5_StepOf(a)]_vars

\* The first message was ended by a rule (seen, never forwarded) and the
\* second one of the same batch is with the responder.
C5_Witness ==
    /\ pc["a1"] = "responder" /\ lastRule["a1"] = 0
    /\ Head(emails["a1"]).uid = 2
    /\ 1 \in seen["a1"] /\ invoked["a1"] = <<0, 1>>

\* ------------------------------------------------------------------------
\* C6  Whenever one of the five rules matches (rule 1 included), after
\* processEmail returns the message id is in processedIds and the message
\* is flagged seen.
\* ------------------------------------------------------------------------
C6_StepOf(a) ==
    LET email == Head(emails[a])
        returned == \/ PassStep(a) /\ Rule1(email)
                    \/ pc[a] = "marking" /\ pc'[a] = "batch" /\ lastRule[a] \in 2..5
    IN returned =>
          /\ arrayIncludes(storeNext.processedIds, email.messageId)
          /\ email.uid \in seen'[a]

C6_SkippedIsProcessedAndSeen == [][\A a \in Accounts : C6_StepOf(a)]_vars

\* ------------------------------------------------------------------------
\* C7  A pass that a filter rule ends adds no reply timestamp: over each of
\* its steps every sender's timestamp list, in the cache and in the file,
\* only loses entries.
\* ------------------------------------------------------------------------
IsSubList(small, big) ==
    /\ Len(small) <= Len(big)
    /\ \A i \in 1..Len(small) : \E j \in 1..Len(big) : big[j] = small[i]

NoNewTimestamp(before, after) ==
    \A s \in DOMAIN after.rateLimits :
        /\ s \in DOMAIN before.rateLimits
        /\ IsSubList(after.rateLimits[s], before.rateLimits[s])

SkipStep(a) ==
    \/ PassStep(a) /\ FirstRule(a, Head(emails[a])) >= 1
    \/ pc[a] = "marking" /\ lastRule[a] >= 1 /\ pc'[a] # pc[a]

C7_StepOf(a) ==
    SkipStep(a) =>
        /\ NoNewTimestamp(store, storeNext)
        /\ stateFile' # stateFile => NoNewTimestamp(store, stateFile'[1])

C7_SkipAddsNoTimestamp == [][\A a \in Accounts : C7_StepOf(a)]_vars

\* A rate-limited message is being marked while the store holds the reply
\* timestamp that made it so.
C7_Witness ==
    /\ pc["a1"] = "marking" /\ lastRule["a1"] = 5
    /\ RecentCount(store, ADDR_alice, now) >= 1

\* ------------------------------------------------------------------------
\* C8  isAutoReply is true exactly when one of the five headers has a
\* non-empty value, the pair auto-submitted: no excepted; a message whose
\* only such header is auto-submitted: no is not ended by rule 3.
\* ------------------------------------------------------------------------
ClaimedAutoReply(email) ==
    \E i \in 1..Len(autoReplyHeaders) :
        LET h == autoReplyHeaders[i] IN
        /\ headerValue(email, h) # <<>>
        /\ ~(h = "auto-submitted" /\ headerValue(email, h) = STR_no)

C8_AutoSubmittedNoIsNotAutoReply ==
    \A a \in Accounts :
        /\ \A i \in 1..Len(emails[a]) :
              isAutoReply(emails[a][i]) <=> ClaimedAutoReply(emails[a][i])
        /\ (pc[a] = "marking" /\ lastRule[a] = 3) => ClaimedAutoReply(Head(emails[a]))

\* ------------------------------------------------------------------------
\* C9  Self-loop prevention: a message whose sender equals the account's
\* own address, letter case ignored, is never forwarded to the responder
\* and never replied to; its pass ends at rule 2 (at rule 1 once marked).
\* ------------------------------------------------------------------------
C9_StepOf(a) ==
    /\ \A raw \in RawSet(a) :
          EqualsIgnoreCase(raw.from, accountEmail(a)) =>
              invoked'[a][raw.uid] = 0 /\ replied'[a][raw.uid] = 0
    /\ (PassStep(a) /\ EqualsIgnoreCase(Head(emails[a]).from, accountEmail(a))) =>
          /\ lastRule'[a] = IF Rule1(Head(emails[a])) THEN 1 ELSE 2
          /\ pc'[a] \notin {"responder", "sending"}

C9_NoSelfLoop == [][\A a \in Accounts : C9_StepOf(a)]_vars

\* The account's own message (bot@x for the account Bot@x) was ended by
\* rule 2 and is being marked.
C9_Witness ==
    /\ pc["a1"] = "marking" /\ lastRule["a1"] = 2
    /\ Head(emails["a1"]).from = ADDR_bot
    /\ accountEmail("a1") # ADDR_bot

\* ------------------------------------------------------------------------
\* C10  Backoff: the k-th wait of a run of connect failures is
\* min(1000 * 2^(k-1), 60000); after a wait the loop always tries again
\* unless cancelled, whatever the number of failures; a successful
\* attempt goes on to fetch, after waits 1000, 2000 when it is the third.
\* ------------------------------------------------------------------------
C10_StepOf(a) ==
    /\ \A k \in 1..Len(waits'[a]) : waits'[a][k] = Min(1000 * 2^(k - 1), 60000)
    /\ (pc[a] = "backoff" /\ pc'[a] # "backoff") =>
          pc'[a] = IF aborted[a] THEN "sleeping" ELSE "connecting"
    /\ (pc[a] = "connecting" /\ pc'[a] # "connecting") =>
          \/ pc'[a] = "fetching" /\ client'[a] /\ waits'[a] = waits[a]
          \/ pc'[a] = "backoff" /\ Len(waits'[a]) = Len(waits[a]) + 1
    /\ (pc[a] = "connecting" /\ pc'[a] = "fetching" /\ Len(waits[a]) = 2) =>
          waits[a] = <<1000, 2000>>

C10_Backoff == [][\A a \in Accounts : C10_StepOf(a)]_vars

\* The eighth attempt succeeded after seven waits, the last one capped.
C10_Witness ==
    /\ pc["a1"] = "fetching" /\ client["a1"]
    /\ Len(waits["a1"]) = 7
    /\ waits["a1"][2] = 2000 /\ waits["a1"][7] = 60000

\* ------------------------------------------------------------------------
\* C11  Backoff reset: a successful connect leaves the delay at the base
\* delay, so the first wait of the next run of connect failures is the base
\* delay whatever preceded; and the delay always lies between the base and
\* the maximum.
\* ------------------------------------------------------------------------
C11_StepOf(a) ==
    /\ (pc[a] = "connecting" /\ pc'[a] = "fetching") =>
          client'[a] /\ retryDelay'[a] = 1000
    /\ (pc[a] = "connecting" /\ pc'[a] = "backoff" /\ waits[a] = <<>>) =>
          waits'[a] = <<1000>>
    /\ 1000 <= retryDelay'[a] /\ retryDelay'[a] <= 60000

C11_BackoffReset ==
    /\ [][\A a \in Accounts : C11_StepOf(a)]_vars
    /\ [](\A a \in Accounts : 1000 <= retryDelay[a] /\ retryDelay[a] <= 60000)

\* The fourth attempt has just succeeded after waits of 1, 2 and 4 seconds
\* and the delay is back at the base.
C11_Witness ==
    /\ pc["a1"] = "fetching" /\ client["a1"]
    /\ waits["a1"] = <<1000, 2000, 4000>>
    /\ retryDelay["a1"] = 1000

\* ------------------------------------------------------------------------
\* C12  Once the signal is set no processEmail pass starts: at the for loop
\* the only step is the break, at the top of the main loop the only step
\* leaves the loop, and no message other than the one whose pass was
\* already in progress gains a responder invocation, a processedIds entry
\* or the seen flag.
\* ------------------------------------------------------------------------
C12_StepOf(a) ==
    aborted[a] =>
        /\ (pc[a] = "batch" /\ pc'[a] # pc[a]) =>
               pc'[a] = "sleeping" /\ emails'[a] = <<>>
        /\ pc[a] = "batch" => emails'[a] \in {emails[a], <<>>}
        /\ (pc[a] = "top" /\ pc'[a] # pc[a]) => pc'[a] \in {"closing", "stopped"}
        /\ \A raw \in RawSet(a) :
               (pc[a] \in {"responder", "sending", "marking"} /\ Head(emails[a]).uid = raw.uid)
               \/ /\ invoked'[a][raw.uid] = invoked[a][raw.uid]
                  /\ replied'[a][raw.uid] = replied[a][raw.uid]
                  /\ raw.uid \in seen'[a] => raw.uid \in seen[a]
                  /\ arrayIncludes(storeNext.processedIds, raw.messageId)
                         => arrayIncludes(store.processedIds, raw.messageId)

C12_NoPassAfterCancel == [][\A a \in Accounts : C12_StepOf(a)]_vars

\* The signal fired while the first message was with the responder: that
\* pass was finished, the second message was left alone and the monitor
\* has returned.
C12_Witness ==
    /\ aborted["a1"] /\ pc["a1"] = "stopped"
    /\ invoked["a1"] = <<1, 0>>
    /\ seen["a1"] = {1}
    /\ ~arrayIncludes(store.processedIds, SecondMessage.messageId)

\* ------------------------------------------------------------------------
\* C13  Shutdown: once the signal is set the monitor eventually returns; it
\* returns only with the signal set, from the top of the main loop, through
\* the cleanup logout exactly when it holds a connection.
\* ------------------------------------------------------------------------
C13_StepOf(a) ==
    /\ (pc'[a] = "closing" /\ pc[a] # "closing") =>
          pc[a] = "top" /\ aborted[a] /\ client[a]
    /\ (pc'[a] = "stopped" /\ pc[a] # "stopped") =>
          /\ aborted[a]
          /\ pc[a] = "closing" \/ (pc[a] = "top" /\ ~client[a])

C13_Shutdown ==
    /\ \A a \in Accounts : aborted[a] ~> pc[a] = "stopped"
    /\ [](\A a \in Accounts : pc[a] = "stopped" => aborted[a])
    /\ [][\A a \in Accounts : C13_StepOf(a)]_vars

\* The signal fired during the processing of the second message, after an
\* error had cost the first connection; the monitor has returned through
\* the cleanup logout.
C13_Witness ==
    /\ pc["a1"] = "stopped" /\ aborted["a1"] /\ client["a1"]
    /\ budget < MaxFaultsLive
    /\ 2 \in seen["a1"]

\* ------------------------------------------------------------------------
\* C14  Interruptible sleep, as claimed: once the signal is set the loop
\* never waits out a poll sleep, that is, no poll sleep of an account whose
\* signal is set is ended by its timer.
\* ------------------------------------------------------------------------
C14_NoFullSleepAfterCancel ==
    [][\A a \in Accounts : ~(aborted[a] /\ pc[a] = "sleeping" /\ pc'[a] = "top")]_vars

\* ------------------------------------------------------------------------
\* C15  Batch resilience, as claimed: an error raised by the processing of
\* one message does not end the batch, that is, while messages of the batch
\* remain after the one in hand and the signal is not set, no step takes
\* the account out of the for loop to the catch block or the poll sleep.
\* ------------------------------------------------------------------------
C15_BatchSurvivesPassError ==
    [][\A a \in Accounts :
          ( /\ pc[a] \in {"batch", "responder", "sending", "marking"}
            /\ Len(emails[a]) > 1
            /\ ~aborted[a] )
          => pc'[a] \notin {"logout", "sleeping"}]_vars

\* ------------------------------------------------------------------------
\* C16  Account isolation: a step in which one monitor meets an error
\* (a rejected connect, fetch, send or mark, a responder exception, a
\* failed state write) or handles one (backoff, logout of the catch block)
\* leaves every other monitor's location, connection, reported connection
\* state, backoff delay, signal and batch as they were, and a monitor that
\* is polling then stays at a location from which it goes on.
\* ------------------------------------------------------------------------
ErrorStep(a) ==
    \/ /\ budget' = budget - 1
       /\ pc[a] \in {"connecting", "fetching", "batch", "responder", "sending", "marking"}
       /\ pc'[a] # pc[a]
    \/ pc[a] \in {"backoff", "logout"} /\ pc'[a] # pc[a]

C16_StepOf(a, b) ==
    ErrorStep(a) =>
        /\ pc'[b] = pc[b]
        /\ client'[b] = client[b]
        /\ statusConnected'[b] = statusConnected[b]
        /\ retryDelay'[b] = retryDelay[b]
        /\ aborted'[b] = aborted[b]
        /\ emails'[b] = emails[b]
        /\ replyCalls'[b] = replyCalls[b]
        /\ seen'[b] = seen[b]
        /\ invoked'[b] = invoked[b] /\ replied'[b] = replied[b]

C16_AccountIsolation ==
    [][\A a \in Accounts : \A b \in Accounts \ {a} : C16_StepOf(a, b)]_vars

\* The one error of the run hit a1, which has dropped its connection and
\* sleeps, while a2 is connected and waits for its responder.
C16_Witness ==
    /\ budget = 0
    /\ pc["a1"] = "sleeping" /\ ~client["a1"] /\ ~aborted["a1"]
    /\ pc["a2"] = "responder" /\ client["a2"] /\ statusConnected["a2"] = "yes"

\* ------------------------------------------------------------------------
\* C17  sendEmail never throws: whatever the options and whatever
\* transporter.sendMail does, the promise of sendEmail is fulfilled; when
\* sendMail resolved the result is {ok: true, messageId} with the id of the
\* transport, and when it rejected or threw the result is {ok: false,
\* error} with an error text and no message id.
\* ------------------------------------------------------------------------
C17_SendEmailNeverThrows ==
    (probe.op = "sendEmail" /\ probe.out # <<>>) =>
        LET outcome == probe.args[2]
            result == probe.out[1]
        IN /\ ~result.threw
           /\ outcome.kind = "resolved" =>
                 /\ result.ok
                 /\ result.messageId = Some(outcome.value)
                 /\ result.error = NULL
           /\ outcome.kind # "resolved" =>
                 /\ ~result.ok
                 /\ result.error # NULL
                 /\ result.messageId = NULL

\* sendMail rejected with an Error for a message with display name,
\* signature and threading headers, and sendEmail returned its text.
C17_Witness ==
    /\ probe.op = "sendEmail" /\ probe.out # <<>>
    /\ probe.args[2] = [kind |-> "rejectedError", value |-> <<"E">>]
    /\ probe.args[1].fromName = Some(<<"B">>)
    /\ probe.args[1].signature = Some(<<"-">>)
    /\ probe.args[1].threadInfo # NULL /\ probe.args[1].threadInfo[1].inReplyTo = <<"i">>
    /\ ~probe.out[1].threw /\ ~probe.out[1].ok
    /\ probe.out[1].error = Some(<<"E">>)
    /\ probe.out[1].sent[1].from = <<"\"", "B", "\"", " ", "<", "b", ">">>
    /\ probe.out[1].sent[1].headers[1].references = Some(<<"h", " ", "i">>)

\* ------------------------------------------------------------------------
\* C18  A failed reply does not block marking: the step that takes a
\* failed send back to the responder records no reply timestamp and leaves
\* the store as it was; the responder can then still return normally; when
\* it does so with no reply delivered, the message id is in processedIds
\* and no timestamp has been added; and the markAsRead that follows flags
\* the message seen.
\* ------------------------------------------------------------------------
\* sendEmail returned ok = false to the reply closure in this step.
FailedSendStep(a) ==
    /\ pc[a] = "sending" /\ pc'[a] = "responder"
    /\ replied'[a] = replied[a]

\* The invocation in progress has called reply and nothing was delivered
\* for the message, in this pass or before.
FailedReply(a) ==
    /\ replyCalls[a] >= 1
    /\ replied[a][Head(emails[a]).uid] = 0

C18_StepOf(a) ==
    /\ FailedSendStep(a) =>
          /\ NoNewTimestamp(store, storeNext)
          /\ stateCache' = stateCache /\ stateFile' = stateFile
    /\ (pc[a] = "responder" /\ FailedReply(a) /\ pc'[a] = "marking") =>
          /\ arrayIncludes(storeNext.processedIds, Head(emails[a]).messageId)
          /\ NoNewTimestamp(store, storeNext)
    /\ (pc[a] = "marking" /\ lastRule[a] = 0 /\ FailedReply(a) /\ pc'[a] = "batch") =>
          /\ Head(emails[a]).uid \in seen'[a]
          /\ stateCache' = stateCache /\ stateFile' = stateFile

C18_FailedReplyStillMarked ==
    /\ [][\A a \in Accounts : C18_StepOf(a)]_vars
    /\ [](\A a \in Accounts :
            (pc[a] = "responder" /\ FailedReply(a)) => ENABLED ResponderReturn(a))

\* The second message went to the responder, its one reply failed, the
\* responder returned, and the message is processed and flagged seen
\* without any reply timestamp of its sender in the store.
C18_Witness ==
    /\ pc["a1"] = "batch" /\ emails["a1"] = <<>>
    /\ invoked["a1"][SecondMessage.uid] = 1
    /\ replied["a1"][SecondMessage.uid] = 0
    /\ passErrors["a1"][SecondMessage.uid] = 0
    /\ budget = MaxFaults - 1
    /\ SecondMessage.uid \in seen["a1"]
    /\ arrayIncludes(store.processedIds, SecondMessage.messageId)
    /\ timestampsOf(store, ADDR_alice) = <<>>

\* ------------------------------------------------------------------------
\* C19  Transport memoization: since the cache was last cleared at most one
\* transport has been created per cache key, and options with the same
\* host, port and user have the same key; a call for a key that is not
\* cached creates one transport, different from every one created before,
\* caches it and returns it; a call for a cached key creates none and
\* returns the cached transport; clearTransporterCache leaves no key
\* cached, so the next call for any key creates a transport.
\* ------------------------------------------------------------------------
C19_GetStep ==
    (probe'.op = "getSmtpTransporter" /\ (probe' # probe \/ handles' # handles)) =>
        LET key == smtpKey(probe'.args[1])
            returned == probe'.out[1]
        IN IF key \in DOMAIN transporterCache
           THEN /\ returned = transporterCache[key]
                /\ handles' = handles
                /\ transporterCache' = transporterCache
           ELSE /\ handles' = handles + 1
                /\ returned.id = handles'
                /\ \A k \in DOMAIN transporterCache : transporterCache[k].id < returned.id
                /\ DOMAIN transporterCache' = DOMAIN transporterCache \cup {key}
                /\ transporterCache'[key] = returned
                /\ \A k \in DOMAIN transporterCache :
                      transporterCache'[k] = transporterCache[k]

C19_ClearStep ==
    (probe'.op = "clearTransporterCache" /\ probe' # probe) =>
        /\ DOMAIN transporterCache' = {}
        /\ handles' = handles

C19_OneTransportPerKey ==
    /\ [][C19_GetStep /\ C19_ClearStep]_vars
    /\ [](\A k \in DOMAIN created : created[k] <= 1)
    /\ [](\A k \in DOMAIN transporterCache :
            /\ k \in DOMAIN created /\ created[k] = 1
            /\ transporterCache[k].id <= handles
            /\ \A l \in DOMAIN transporterCache \ {k} :
                  transporterCache[l].id # transporterCache[k].id)
    /\ [](probe.op = "getSmtpTransporter" =>
            /\ smtpKey(probe.args[1]) \in DOMAIN transporterCache
            /\ transporterCache[smtpKey(probe.args[1])] = probe.out[1])
    /\ [](\A o1 \in SmtpOptionsSet : \A o2 \in SmtpOptionsSet :
            (o1.host = o2.host /\ o1.port = o2.port /\ o1.user = o2.user)
                => smtpKey(o1) = smtpKey(o2))

\* After a transport was created and the cache cleared, a call has created
\* the second transport of the process for its key, which is the only key
\* cached, and the latest call returned that transport.
C19_Witness ==
    /\ handles = 2
    /\ probe.op = "getSmtpTransporter"
    /\ DOMAIN transporterCache = {smtpKey(probe.args[1])}
    /\ probe.out[1].id = 2
    /\ created[smtpKey(probe.args[1])] = 1

\* ------------------------------------------------------------------------
\* C20  buildReplySubject is idempotent, as claimed: for every subject s
\* and prefix p, applying it to its own result with the same prefix returns
\* that result, and the prefix is not added when s already starts with p,
\* letter case ignored.
\* ------------------------------------------------------------------------
\* Simple case folding of one character
Fold(c) == IF c \in {CAPITAL_SIGMA, FINAL_SIGMA} THEN SMALL_SIGMA ELSE LowerChar(c)

StartsWithIgnoringCase(s, p) ==
    /\ Len(p) <= Len(s)
    /\ \A i \in 1..Len(p) : Fold(s[i]) = Fold(p[i])

PrefixOf(arg) == IF arg = NULL THEN DefaultPrefix ELSE arg[1]

C20_Idempotent ==
    probe.op = "buildReplySubject" =>
        /\ Len(probe.out) = 2 => probe.out[2] = probe.out[1]
        /\ (Len(probe.out) >= 1 /\ StartsWithIgnoringCase(probe.args[1], PrefixOf(probe.args[2])))
              => probe.out[1] = probe.args[1]

\* ------------------------------------------------------------------------
\* C21  As claimed: for every parent message id and every parent reference
\* chain, no entry occurs twice in the references that buildThreadInfo
\* returns.
\* ------------------------------------------------------------------------
C21_NoDuplicateReferences ==
    (probe.op = "buildThreadInfo" /\ probe.out # <<>>) =>
        LET refs == probe.out[1].references IN
        \A i \in 1..Len(refs) : \A j \in 1..Len(refs) :
            i # j => refs[i] # refs[j]

\* ------------------------------------------------------------------------
\* C22  As claimed: for every non-empty parent message id and every parent
\* reference chain, the references that buildThreadInfo returns end with
\* the parent id, and inReplyTo is the parent id.
\* ------------------------------------------------------------------------
C22_EndsWithParent ==
    (probe.op = "buildThreadInfo" /\ probe.out # <<>> /\ probe.args[1] # "") =>
        LET refs == probe.out[1].references IN
        /\ refs # <<>>
        /\ refs[Len(refs)] = probe.args[1]
        /\ probe.out[1].inReplyTo = probe.args[1]

\* ------------------------------------------------------------------------
\* C23  Bounded store: the cache and the state file never hold more than
\* MAX_PROCESSED_IDS ids once saveState has run; the ids stored are the
\* most recently marked ones in the order of marking, a marked id being
\* the newest; and once more ids than the cap have been marked, exactly
\* the cap is stored.
\* ------------------------------------------------------------------------
NewestMarked(st) == st.processedIds[Len(st.processedIds)][1]

\* st holds the n ids marked last, oldest first, n being the cap when at
\* least that many were marked.
HoldsMostRecent(st) ==
    LET n == Len(st.processedIds)
        hi == NewestMarked(st)
    IN /\ n <= MAX_PROCESSED_IDS
       /\ n = Min(hi, MAX_PROCESSED_IDS)
       /\ st.processedIds = IdRun(hi - n + 1, hi)

C23_MarkStep ==
    (probe'.op = "markMessageProcessed" /\ stateCache' # stateCache) =>
        /\ Len(stateCache'[1].processedIds) <= MAX_PROCESSED_IDS
        /\ arrayIncludes(stateCache'[1].processedIds, probe'.args[1])
        /\ (~arrayIncludes(store.processedIds, probe'.args[1]))
              => NthId(NewestMarked(stateCache'[1])) = probe'.args[1]

C24_CheckStep ==
    (probe'.op = "checkRateLimit" /\ now' = now) =>
        LET sender == probe'.args[1]
            maxPerHour == probe'.args[2]
        IN /\ probe'.out[1] = (RecentCount(store, sender, now) < maxPerHour)
           /\ stateFile' = stateFile
           /\ storeNext = store

C24_WindowSliding == [][C24_CheckStep]_vars

\* alice has as many replies on record as the ceiling of the check, all of
\* them a full window old and none purged, and the check allowed her.
C24_Witness ==
    /\ probe.op = "checkRateLimit" /\ probe.args[1] = ADDR_alice
    /\ probe.args[2] = MaxStoreReplies
    /\ probe.out = <<TRUE>>
    /\ stateCache # NULL /\ stateFile = stateCache
    /\ Len(timestampsOf(store, ADDR_alice)) = MaxStoreReplies
    /\ \A i \in 1..MaxStoreReplies :
          now - timestampsOf(store, ADDR_alice)[i] = RATE_LIMIT_WINDOW_MS

\* ------------------------------------------------------------------------
\* C25  clearState wipes everything: when it has returned, the cache is
\* null and the state file is gone, whatever was stored; the store then
\* loaded is the empty one, no id is reported processed and every sender
\* is allowed for every ceiling of at least 1, also by the calls that
\* follow.
\* ------------------------------------------------------------------------
Cleared == probe.op = "clearState" /\ ~probe.out[1].threw

C25_Step ==
    /\ (Cleared /\ probe'.op = "isMessageProcessed") => probe'.out = <<FALSE>>
    /\ (Cleared /\ probe'.op = "checkRateLimit") => probe'.out = <<TRUE>>
    /\ (Cleared /\ probe'.op = "loadState" /\ ~probe'.out[1].threw)
          => probe'.out[1].state = EmptyStore

C25_ClearWipes ==
    /\ [](Cleared =>
            /\ stateCache = NULL /\ stateFile = NULL
            /\ store = EmptyStore
            /\ \A id \in StoreIds : ~isMessageProcessed(stateCache, stateFile, id)
            /\ \A sender \in StoreSenders : \A maxPerHour \in 1..MaxStoreReplies :
                  checkRateLimit(stateCache, stateFile, sender, maxPerHour, now))
    /\ [][C25_Step]_vars

\* clearState has returned after the store held both ids and a reply
\* timestamp of alice that blocked her.
C25_Witness ==
    /\ Cleared
    /\ Len(probe.before.processedIds) = 2
    /\ ~checkRateLimit(Some(probe.before), NULL, ADDR_alice, 1, now)
    /\ stateCache = NULL /\ stateFile = NULL

\* ------------------------------------------------------------------------
\* C26  Persistence across restarts, as claimed: whenever
\* markMessageProcessed or recordReply has returned normally, the state
\* file holds the store that is in memory, so that every id the store
\* reports processed is still reported processed after a restart.
\* ------------------------------------------------------------------------
\* The store a process started now would load
durable == loadState(NULL, stateFile)
durableNext == loadState(NULL, stateFile')

MutationReturned ==
    /\ probe'.op \in {"markMessageProcessed", "recordReply"}
    /\ ~probe'.out[1].threw
    /\ now' = now

C26_DurableAfterMutation ==
    [][MutationReturned =>
          /\ durableNext = storeNext
          /\ \A id \in StoreIds :
                isMessageProcessed(stateCache', stateFile', id)
                    => isMessageProcessed(NULL, stateFile', id)]_vars

\* ------------------------------------------------------------------------
\* C27  Store write failure, as claimed: when the write of the state file
\* fails inside markMessageProcessed or recordReply the call throws, and
\* afterwards the cache holds no processed id and no reply timestamp that
\* the state file lacks.
\* ------------------------------------------------------------------------
MutationThrew ==
    /\ probe'.op \in {"markMessageProcessed", "recordReply"}
    /\ probe'.out[1].threw
    /\ now' = now

C27_CacheNotAheadAfterFailedWrite ==
    [][MutationThrew =>
          /\ \A id \in StoreIds :
                arrayIncludes(storeNext.processedIds, id)
                    => arrayIncludes(durableNext.processedIds, id)
          /\ \A sender \in StoreSenders :
                Len(timestampsOf(storeNext, sender)) <= Len(timestampsOf(durableNext, sender))]_vars

\* ------------------------------------------------------------------------
\* C28  Store read failure, as claimed: when the state directory cannot be
\* prepared or the state file cannot be read or parsed, loadState does not
\* throw and returns the empty store.
\* ------------------------------------------------------------------------
C28_LoadNeverThrows ==
    (probe.op = "loadState" /\ (~probe.args[1] \/ ~probe.args[2])) =>
        /\ ~probe.out[1].threw
        /\ probe.out[1].state = EmptyStore

\* ------------------------------------------------------------------------
\* C29  Error leads to reconnect: a step in which fetching or processing
\* raises takes a monitor that holds a connection to the logout of the catch
\* block; when that logout has settled the monitor holds no connection and
\* sleeps; a fetch or a mark-seen is only ever started by a monitor that
\* holds a connection; and a monitor comes to hold a connection only when
\* connectImap resolves.  So between an error and the next fetch the old
\* connection is closed and dropped and a new one is made.
\* ------------------------------------------------------------------------
PollError(a) ==
    /\ budget' = budget - 1
    /\ pc[a] \in {"fetching", "batch", "responder", "marking"}
    /\ pc'[a] \in {"logout", "sleeping"}

C29_StepOf(a) ==
    /\ PollError(a) => client[a] /\ pc'[a] = "logout" /\ client'[a]
    /\ (pc[a] = "logout" /\ pc'[a] # "logout") => ~client'[a] /\ pc'[a] = "sleeping"
    /\ (pc'[a] \in {"fetching", "marking"} /\ pc'[a] # pc[a]) => client'[a]
    /\ (client'[a] /\ ~client[a]) => pc[a] = "connecting" /\ pc'[a] = "fetching"

C29_ErrorLeadsToReconnect ==
    /\ [](\A a \in Accounts : pc[a] \in {"fetching", "marking", "logout"} => client[a])
    /\ [][\A a \in Accounts : C29_StepOf(a)]_vars

\* The one error of the run was a responder exception; the monitor has
\* since logged out, slept, connected again and is fetching.
C29_Witness ==
    \E a \in Accounts :
        /\ budget = MaxFaults - 1
        /\ \E uid \in DOMAIN passErrors[a] : passErrors[a][uid] > 0
        /\ pc[a] = "fetching" /\ client[a]

\* ------------------------------------------------------------------------
\* C30  Status accuracy: after each step in which a monitor gains or loses
\* its connection or fails to get one (connectImap resolved, connectImap
\* rejected, the logout of the catch block settled, the monitor stopped),
\* the last `connected` value given to statusSink is true exactly when the
\* monitor holds a live connection.
\* ------------------------------------------------------------------------
HoldsLiveNext(a) == client'[a] /\ pc'[a] # "stopped"

ConnectSettled(a) == pc[a] = "connecting" /\ pc'[a] \in {"fetching", "backoff"}

DroppedAfterError(a) == pc[a] = "logout" /\ pc'[a] = "sleeping"

ShutDown(a) == pc[a] # "stopped" /\ pc'[a] = "stopped"

C30_StatusAccurate ==
    [][\A a \in Accounts :
          (ConnectSettled(a) \/ DroppedAfterError(a) \/ ShutDown(a))
              => ((statusConnected'[a] = "yes") <=> HoldsLiveNext(a))]_vars

\* ------------------------------------------------------------------------
\* C31  Purge invariant: when checkRateLimit has returned, and when a save
\* (of recordReply, or of markMessageProcessed with a new id) has run, the
\* stored rate limits hold no timestamp t with now - t at or beyond the
\* window; after a save no sender is stored with an empty list, and the
\* same holds of the file when the save returned.
\* ------------------------------------------------------------------------
NoStaleTimestamp(st, t) ==
    \A sender \in DOMAIN st.rateLimits :
        \A i \in 1..Len(st.rateLimits[sender]) :
            t - st.rateLimits[sender][i] < RATE_LIMIT_WINDOW_MS

NoEmptyList(st) == \A sender \in DOMAIN st.rateLimits : st.rateLimits[sender] # <<>>

ReadStep == probe'.op = "checkRateLimit" /\ now' = now

SaveStep ==
    /\ now' = now
    /\ \/ probe'.op = "recordReply"
       \/ /\ probe'.op = "markMessageProcessed"
          /\ ~arrayIncludes(store.processedIds, probe'.args[1])

PurgedAfterSave ==
    SaveStep =>
        /\ NoStaleTimestamp(storeNext, now') /\ NoEmptyList(storeNext)
        /\ ~probe'.out[1].threw =>
              NoStaleTimestamp(durableNext, now') /\ NoEmptyList(durableNext)

C31_PurgeInvariant ==
    [][/\ ReadStep => NoStaleTimestamp(storeNext, now')
       /\ PurgedAfterSave]_vars

\* ------------------------------------------------------------------------
\* C32  Normalizer-level skip: when a fetch of the poll loop settles without
\* an IMAP error, the batch is exactly the fetched messages that parse and
\* have a sender address, in the order fetched, whatever unusable messages
\* lie before, between or after them; no failure is counted, the monitor
\* goes on to process the batch, and its connection and the connection
\* state it reported are as before.
\* ------------------------------------------------------------------------
Usable(raw) == ~simpleParserThrows(raw) /\ SenderOf(raw) # <<>>

\* The unseen messages of a folder, and the `limit` newest of them
UnseenIn(box, seenUids) == {box[i] : i \in {j \in 1..Len(box) : box[j].uid \notin seenUids}}

Newest(raws, limit) ==
    {m \in raws : Cardinality({n \in raws : n.uid > m.uid}) < limit}

\* es holds the usable messages of raws, once each, oldest first
IsBatchOf(es, raws) ==
    /\ {es[i] : i \in 1..Len(es)} = {EmailOf(raw) : raw \in {r \in raws : Usable(r)}}
    /\ \A i \in 1..Len(es) : \A j \in 1..Len(es) : i < j => es[i].uid < es[j].uid

C32_StepOf(a) ==
    (pc[a] = "fetching" /\ pc'[a] = "batch") =>
        /\ IsBatchOf(emails'[a], Newest(UnseenIn(mailbox[a], seen[a]), FetchLimit))
        /\ budget' = budget
        /\ client[a] /\ client'[a]
        /\ statusConnected'[a] = "yes"

C32_NormalizerSkip == [][\A a \in Accounts : C32_StepOf(a)]_vars

\* No failure has occurred; the folder holds an unusable message that is
\* still unseen, and the usable message fetched with it went to the
\* responder and is flagged seen, on the connection made at the start.
C32_Witness ==
    /\ budget = MaxFaultsFetch
    /\ \E raw \in RawSet("a1") : ~Usable(raw) /\ raw.uid \notin seen["a1"]
    /\ invoked["a1"][2] = 1 /\ 2 \in seen["a1"]
    /\ client["a1"] /\ statusConnected["a1"] = "yes"

\* ------------------------------------------------------------------------
\* C33  fetchUnseen result: when fetchUnreadEmails(client, folder, limit)
\* is fulfilled, its emails are messages unseen when it was called, at most
\* limit of them, all among the limit newest unseen ones, and ordered
\* newest first; and however the call settled, on an error of
\* getMailboxLock, search or fetch too, no folder lock it took is left
\* unreleased.
\* ------------------------------------------------------------------------
FetchCall == probe.op = "fetchUnreadEmails"

FetchedOnlyUnseen ==
    LET es == probe.out[1].emails IN
    \A i \in 1..Len(es) :
        \E raw \in UnseenIn(probe.box, probe.seenUids) : raw.uid = es[i].uid

FetchedAtMostLimit == Len(probe.out[1].emails) <= probe.args[1]

FetchedNewest ==
    LET es == probe.out[1].emails IN
    \A i \in 1..Len(es) :
        \E raw \in Newest(UnseenIn(probe.box, probe.seenUids), probe.args[1]) :
            raw.uid = es[i].uid

FetchedNewestFirst ==
    LET es == probe.out[1].emails IN
    \A i \in 1..Len(es) : \A j \in 1..Len(es) : i < j => es[i].uid > es[j].uid

LockReleased == probe.out[1].locksHeld = 0

C33_FetchUnseenResult ==
    FetchCall =>
        /\ LockReleased
        /\ ~probe.out[1].threw =>
              /\ FetchedOnlyUnseen
              /\ FetchedAtMostLimit
              /\ FetchedNewest
              /\ FetchedNewestFirst

\* ------------------------------------------------------------------------
\* C34  No lost store updates, with two monitors interleaving at their
\* awaits: a step that writes the state file writes the whole in-memory
\* store; when markMessageProcessed or recordReply has returned in a
\* monitor, the id or the timestamp is in the in-memory store and in the
\* file; and no step of either monitor removes an id, or a timestamp still
\* inside the window, from the in-memory store or from the file.
\* ------------------------------------------------------------------------
KeepsIds(before, after) ==
    \A i \in 1..Len(before.processedIds) :
        arrayIncludes(after.processedIds, before.processedIds[i])

KeepsTimestamps(before, after, t) ==
    \A sender \in DOMAIN before.rateLimits :
        IsSubList(recentTimestamps(before.rateLimits[sender], t),
                  timestampsOf(after, sender))

\* markMessageProcessed returned in monitor a: markAsRead is awaited next
MarkReturned(a) == pc[a] \in {"batch", "responder"} /\ pc'[a] = "marking"

\* recordReply returned in the reply closure of monitor a
RecordReturned(a) ==
    pc[a] = "sending" /\ pc'[a] = "responder" /\ replied'[a] # replied[a] /\ budget' = budget

C34_StepOf(a) ==
    LET email == Head(emails[a]) IN
    /\ MarkReturned(a) =>
          /\ arrayIncludes(storeNext.processedIds, email.messageId)
          /\ arrayIncludes(durableNext.processedIds, email.messageId)
    /\ RecordReturned(a) =>
          /\ timestampsOf(storeNext, email.from)
                = Append(recentTimestamps(timestampsOf(store, email.from), now'), now')
          /\ timestampsOf(durableNext, email.from) = timestampsOf(storeNext, email.from)

C34_NoLostUpdate ==
    [][/\ stateFile' # stateFile => durableNext = storeNext
       /\ KeepsIds(store, storeNext) /\ KeepsIds(durable, durableNext)
       /\ KeepsTimestamps(store, storeNext, now')
       /\ KeepsTimestamps(durable, durableNext, now')
       /\ \A a \in Accounts : C34_StepOf(a)]_vars

\* Both monitors are in the middle of a pass: the first has recorded its
\* reply and waits for its responder, the second has since recorded its own
\* reply and marked its message and waits for markAsRead; the file holds
\* both timestamps and the id.
C34_Witness ==
    /\ pc["a1"] = "responder" /\ replied["a1"][2] = 1
    /\ pc["a2"] = "marking" /\ replied["a2"][1] = 1
    /\ stateFile # NULL /\ stateFile = stateCache
    /\ Len(timestampsOf(durable, ADDR_alice)) = 2
    /\ durable.processedIds = <<OtherMessage.messageId>>

\* ------------------------------------------------------------------------
\* C35  Progress: in a run without cancellation in which every pending
\* call settles and only finitely many connects, fetches, mark-seen calls
\* and responder calls fail, every unseen message of the folder that parses
\* and has a sender is eventually passed to the responder or flagged seen,
\* however many unseen messages the folder holds.
\* ------------------------------------------------------------------------
Pending(uid) ==
    \E raw \in RawSet("a1") : raw.uid = uid /\ Usable(raw) /\ uid \notin seen["a1"]

Handled(uid) == invoked["a1"][uid] > 0 \/ uid \in seen["a1"]

C35_Progress == \A uid \in Uids : Pending(uid) ~> Handled(uid)

====
